---------------------------- MODULE Spec2Model ----------------------------
(***************************************************************************)
(* A state-machine model of the AdX bidding agents of this repository:     *)
(*   agent10  BigBuddyNDaysNCampaignsAgent  (plain tabular Q-learning)     *)
(*   agent11  HybridRLAgent                 (bootstrapped Q-learning)      *)
(*   agent7   BasicBot                      (static shading)               *)
(* together with the simulator they talk to (day, active campaigns,        *)
(* cumulative reach and cost, cumulative profit).                          *)
(*                                                                         *)
(* Numbers.  The code computes in floating point.  Here every float is a   *)
(* rational <<n, d>> in lowest terms with d > 0, and +, -, *, / are exact; *)
(* the results of math.atan and of 2 / (R * (1 + u**2)) are rounded to a   *)
(* decimal grid (1/1000 and 1/10000).  float32 rounding of the stored      *)
(* Q-values is therefore not modelled.                                     *)
(***************************************************************************)
EXTENDS Integers, Sequences, FiniteSets, TLC

(***************************************************************************)
(* Rational arithmetic                                                     *)
(***************************************************************************)
Abs(i) == IF i < 0 THEN -i ELSE i

RECURSIVE GCD(_, _)
GCD(a, b) == IF b = 0 THEN a ELSE GCD(b, a % b)

Rat(n, d) ==
    LET s == IF d < 0 THEN -1 ELSE 1
        g == GCD(Abs(n), Abs(d))
    IN  IF n = 0 THEN <<0, 1>> ELSE <<(s * n) \div g, (s * d) \div g>>

RInt(i) == <<i, 1>>

LCM(a, b) == (a \div GCD(a, b)) * b

RAdd(p, q) ==
    LET l == LCM(p[2], q[2])
    IN  Rat(p[1] * (l \div p[2]) + q[1] * (l \div q[2]), l)

RNeg(p) == <<-p[1], p[2]>>

RSub(p, q) == RAdd(p, RNeg(q))

RMul(p, q) ==
    LET g1 == GCD(Abs(p[1]), q[2])
        g2 == GCD(Abs(q[1]), p[2])
    IN  IF p[1] = 0 \/ q[1] = 0 THEN <<0, 1>>
        ELSE <<(p[1] \div g1) * (q[1] \div g2), (p[2] \div g2) * (q[2] \div g1)>>

\* p / q for q # 0
RDiv(p, q) == RMul(p, Rat(q[2], q[1]))

RLt(p, q) ==
    LET l == LCM(p[2], q[2])
    IN  p[1] * (l \div p[2]) < q[1] * (l \div q[2])

RLe(p, q) == ~RLt(q, p)

RMax(p, q) == IF RLt(p, q) THEN q ELSE p

RMin(p, q) == IF RLt(q, p) THEN q ELSE p

IMax(i, j) == IF i < j THEN j ELSE i

IMin(i, j) == IF j < i THEN j ELSE i

\* the nearest integer to n / d, for d > 0
RoundDiv(n, d) == (2 * n + d) \div (2 * d)

(***************************************************************************)
(* Program constants                                                       *)
(***************************************************************************)
\* agent10: self.num_buckets
num_buckets == 3
\* agent11: self.num_states
num_states == 9
\* len(self.beta_grid) of both learners: np.linspace(lo, hi, 11)
NumActions == 11
\* self.max_active_campaigns of both learners
max_active_campaigns == 5

\* agent10: np.linspace(0.5, 1.5, 11)[i]
beta_grid10(i) == Rat(5 + i, 10)
\* agent11: np.linspace(0.4, 1.4, 11)[i]
beta_grid11(i) == Rat(4 + i, 10)

\* agent10: self.eps, self.alpha
eps10 == Rat(1, 10)
alpha10 == Rat(1, 5)
\* agent11: self.epsilon (initial), epsilon_min, epsilon_decay, alpha, gamma
epsilon_init == Rat(1, 1)
epsilon_min == Rat(5, 100)
epsilon_decay == Rat(985, 1000)
alpha11 == Rat(1, 10)
gamma11 == Rat(9, 10)

\* the price floor and the global price ceiling of both learners
min_price == Rat(1, 100)
max_price == Rat(5, 1)

(***************************************************************************)
(* math.atan, on the grid of 1/1000 rad: linear interpolation between the  *)
(* values at the multiples of 1/4, odd, constant beyond |u| = 12.          *)
(***************************************************************************)
AtanKnots ==
    <<0, 245, 464, 644, 785, 896, 983, 1052, 1107, 1153, 1190, 1222, 1249,
      1272, 1292, 1310, 1326, 1340, 1352, 1363, 1373, 1383, 1391, 1399, 1406,
      1412, 1418, 1424, 1429, 1434, 1438, 1442, 1446, 1450, 1454, 1457, 1460,
      1463, 1466, 1469, 1471, 1474, 1476, 1478, 1480, 1482, 1484, 1486, 1488>>

\* atan(n / d) in 1/1000 rad, for n >= 0 and d > 0
AtanPos(n, d) ==
    LET k == (4 * n) \div d
    IN  IF k >= 48 THEN AtanKnots[49]
        ELSE AtanKnots[k + 1]
             + RoundDiv((AtanKnots[k + 2] - AtanKnots[k + 1]) * (4 * n - k * d), d)

\* atan(u) in 1/1000 rad, u a rational
AtanMilli(u) == IF u[1] < 0 THEN -AtanPos(-u[1], u[2]) ELSE AtanPos(u[1], u[2])

\* the shape constants a, b of the reach curve
curve_a == Rat(408577, 100000)
curve_b == Rat(308577, 100000)

(***************************************************************************)
(* Pure helpers of the agents                                              *)
(***************************************************************************)
\* faulty variant of _urgency_bucket: the thresholds compared with < for <=
urgency_bucket_strict(days_left) ==
    IF days_left < 1 THEN 0
    ELSE IF days_left < 3 THEN 1
    ELSE 2

\* agent10 _urgency_bucket
urgency_bucket(days_left) ==
    IF days_left <= 1 THEN 0
    ELSE IF days_left <= 3 THEN 1
    ELSE 2

\* faulty variant of _get_state_index: the pacing thresholds compared with
\* <= for <
get_state_index_le(days_left, needed_per_day, total_reach) ==
    LET t == IF days_left <= 1 THEN 0
             ELSE IF days_left <= 3 THEN 1
             ELSE 2
        ratio == RDiv(needed_per_day, RInt(IMax(1, total_reach)))
        p == IF RLe(ratio, Rat(1, 10)) THEN 0
             ELSE IF RLe(ratio, Rat(3, 10)) THEN 1
             ELSE 2
    IN  (t * 3) + p

\* agent11 _get_state_index; needed_per_day is a rational
get_state_index(days_left, needed_per_day, total_reach) ==
    LET t == IF days_left <= 1 THEN 0
             ELSE IF days_left <= 3 THEN 1
             ELSE 2
        ratio == RDiv(needed_per_day, RInt(IMax(1, total_reach)))
        p == IF RLt(ratio, Rat(1, 10)) THEN 0
             ELSE IF RLt(ratio, Rat(3, 10)) THEN 1
             ELSE 2
    IN  (t * 3) + p

\* a * (x / R) - b, for R # 0
curve_u(x, R) == RSub(RMul(curve_a, Rat(x, R)), curve_b)

\* faulty variant of _calculate_effective_reach: the impressions beyond R
\* are not counted
calculate_effective_reach_capped(x, R) ==
    IF R = 0 THEN RInt(0)
    ELSE LET term1 == AtanMilli(curve_u(IF R > 0 THEN IMin(x, R) ELSE x, R))
             term2 == AtanMilli(RNeg(curve_b))
         IN  Rat(RoundDiv(2 * curve_a[2] * (term1 - term2), curve_a[1]), 1000)

\* agent11 _calculate_effective_reach, rounded to 1/1000
calculate_effective_reach(x, R) ==
    IF R = 0 THEN RInt(0)
    ELSE LET term1 == AtanMilli(curve_u(x, R))
             term2 == AtanMilli(RNeg(curve_b))
         IN  Rat(RoundDiv(2 * curve_a[2] * (term1 - term2), curve_a[1]), 1000)

\* agent11 _calculate_marginal_utility, rounded to 1/10000
calculate_marginal_utility(x, R) ==
    IF R <= 0 THEN RInt(0)
    ELSE LET u == curve_u(x, R)
             uc == RoundDiv(100 * u[1], u[2])
             denominator == R * (10000 + uc * uc)
         IN  Rat(RoundDiv(200000000, denominator), 10000)

\* np.argmax(row): the first index attaining the maximum of row (a function
\* on 0..NumActions-1)
RECURSIVE ArgMaxFrom(_, _, _)
ArgMaxFrom(row, i, best) ==
    IF i >= NumActions THEN best
    ELSE ArgMaxFrom(row, i + 1, IF RLt(row[best], row[i]) THEN i ELSE best)

\* faulty variant of np.argmax: the last index attaining the maximum
RECURSIVE ArgMaxLastFrom(_, _, _)
ArgMaxLastFrom(row, i, best) ==
    IF i >= NumActions THEN best
    ELSE ArgMaxLastFrom(row, i + 1, IF RLe(row[best], row[i]) THEN i ELSE best)

argmax_last(row) == ArgMaxLastFrom(row, 1, 0)

argmax(row) == ArgMaxFrom(row, 1, 0)

\* np.max(row)
RowMax(row) == row[argmax(row)]

\* the epsilon-greedy choice of both learners: rand is the value drawn by
\* np.random.rand(), randint the one np.random.randint(len(beta_grid)) would
\* draw
select_beta_idx(row, eps, rand, randint) ==
    IF RLt(rand, eps) THEN randint ELSE argmax(row)

(***************************************************************************)
(* Bounds of the model                                                     *)
(***************************************************************************)
\* campaigns the simulator can hand to the agent in one game
NumCampaigns == 2
\* get_ad_bids calls over the life of one agent object
MaxCalls == 3
\* games played by one agent object
MaxGames == 2

Uids == 1..NumCampaigns

\* the campaigns of the simulator: uid |-> reach, budget, start_day, end_day
campaign(uid) ==
    IF uid % 2 = 1
    THEN [uid |-> uid, reach |-> 6, budget |-> RInt(6), start_day |-> 1,
          end_day |-> 2]
    ELSE [uid |-> uid, reach |-> 6, budget |-> RInt(3), start_day |-> 1,
          end_day |-> 3]

\* what one day of ad auctions can bring a campaign that bid: <<impressions
\* won, second price paid for each>>
DayChoices ==
    {<<0, RInt(0)>>, <<5, Rat(1, 20)>>, <<5, Rat(599, 1000)>>, <<6, Rat(1, 20)>>}
\* the change of the agent's cumulative profit over one day
ProfitDeltas == {RInt(-1), RInt(2)}
\* arguments of the helpers called directly
MaxDaysLeft == 6
MaxReach == 10
NegReach == 2
MaxImpr == 20
\* values of np.random.rand() (in [0, 1))
RandDraws == {RInt(0), Rat(99, 100)}
\* faulty variant of the explored index: the upper end included, as
\* random.randint(0, len(beta_grid)) would draw
RandIntDraws_inclusive == {NumActions}

\* values of np.random.randint(11)
RandIntDraws == {NumActions - 1}
\* agent7: values of campaign_utils.campaign_shade
ShadeDraws == {Rat(1, 2), RInt(1)}

(***************************************************************************)
(* State                                                                   *)
(***************************************************************************)
VARIABLES
    call,          \* the last direct call of a helper: fn, args, result
    agent,         \* which agent class the object is
    utils_bound,   \* agent7: whether the name campaign_utils resolves
    phase,         \* "idle" | "bid" | "sim": what the simulator does next
    game,          \* games started so far
    calls,         \* get_ad_bids calls so far
    day,           \* get_current_day()
    won,           \* uids of the campaigns the agent holds in this game
    active,        \* uids of get_active_campaigns()
    cum_reach,     \* get_cumulative_reach(c), by uid
    cum_cost,      \* get_cumulative_cost(c), by uid
    profit,        \* get_cumulative_profit()
    Q,             \* self.Q
    last_actions,  \* self.last_actions: <<uid, value>> in insertion order
    prev_profit,   \* agent10 self.prev_profit
    profit_seen,   \* get_cumulative_profit() at the get_ad_bids call of the day
                   \* before in this game, 0 on the first day
    epsilon,       \* self.eps (agent10), self.epsilon (agent11)
    bundles,       \* the set returned by the last get_ad_bids
    raised,        \* the exception the last handler call ended with
    la_born,       \* by uid of last_actions: the <<game, day>> it was recorded
    daily_quality_scores,  \* agent10: the days a quality score was logged
    applied,       \* the <<uid, born>> of the Q-updates of the last get_ad_bids
    Q_before,      \* self.Q when the last get_ad_bids was entered
    la_before,     \* self.last_actions when the last get_ad_bids was entered
    reward,        \* agent10: the reward the last get_ad_bids computed
    rewards        \* agent10: <<game, reward>> of every get_ad_bids so far

vars == <<call, agent, utils_bound, phase, game, calls, day, won, active, cum_reach,
          cum_cost, profit, Q, last_actions, prev_profit, profit_seen, epsilon, bundles,
          raised, la_born, daily_quality_scores, applied, Q_before,
          la_before, reward, rewards>>

env_vars == <<day, won, active, cum_reach, cum_cost, profit>>

\* faulty variant of the initial table: np.ones for np.zeros
OnesQ(n) == [s \in 0..(n - 1) |-> [a \in 0..(NumActions - 1) |-> RInt(1)]]

\* np.zeros((n, len(self.beta_grid)))
ZeroQ(n) == [s \in 0..(n - 1) |-> [a \in 0..(NumActions - 1) |-> RInt(0)]]

\* the injective sequences over S: the orders a set can be iterated in
OrdersOf(S) ==
    {f \in [1..Cardinality(S) -> S] : \A i, j \in DOMAIN f : f[i] = f[j] => i = j}

\* dict lookup and dict assignment on an insertion-ordered dict
DictKeys(d) == {d[i][1] : i \in DOMAIN d}

\* faulty variant of the dict assignment: the assignment is lost
DictSet_lost(d, k, v) == d

DictSet(d, k, v) ==
    IF k \in DictKeys(d)
    THEN [i \in DOMAIN d |-> IF d[i][1] = k THEN <<k, v>> ELSE d[i]]
    ELSE Append(d, <<k, v>>)

\* no helper has been called directly
NoCall == [fn |-> "none", args |-> <<>>, result |-> 0]

\* __init__ of the three agents, before the first game
Init ==
    /\ call = NoCall
    /\ agent \in {"agent10", "agent11", "agent7"}
    /\ utils_bound \in (IF agent = "agent7" THEN BOOLEAN ELSE {FALSE})
    /\ phase = "idle"
    /\ game = 0
    /\ calls = 0
    /\ day = 0
    /\ won = {}
    /\ active = {}
    /\ cum_reach = [u \in Uids |-> 0]
    /\ cum_cost = [u \in Uids |-> RInt(0)]
    /\ profit = RInt(0)
    /\ Q = CASE agent = "agent10" -> ZeroQ(num_buckets)
             [] agent = "agent11" -> ZeroQ(num_states)
             [] OTHER -> <<>>
    /\ last_actions = <<>>
    /\ prev_profit = RInt(0)
    /\ profit_seen = RInt(0)
    /\ epsilon = CASE agent = "agent10" -> eps10
                   [] agent = "agent11" -> epsilon_init
                   [] OTHER -> RInt(0)
    /\ bundles = {}
    /\ raised = "none"
    /\ la_born = <<>>
    /\ daily_quality_scores = <<>>
    /\ applied = <<>>
    /\ Q_before = Q
    /\ la_before = <<>>
    /\ reward = RInt(0)
    /\ rewards = <<>>

(***************************************************************************)
(* agent10: BigBuddyNDaysNCampaignsAgent                                   *)
(***************************************************************************)
\* faulty variant of _compute_daily_reward: prev_profit is not subtracted
daily_reward_total(current_profit, prev) == current_profit

\* _compute_daily_reward: the reward; self.prev_profit becomes current_profit
compute_daily_reward(current_profit, prev) == RSub(current_profit, prev)

\* faulty variant of the plain update: the old value is not subtracted
update_Q_cell_additive(Qt, bucket, beta_idx, r) ==
    LET old_val == Qt[bucket][beta_idx]
    IN  [Qt EXCEPT ![bucket][beta_idx] = RAdd(old_val, RMul(alpha10, r))]

\* faulty variant of the update: the step is 1 / alpha, not alpha
update_Q_cell_long_step(Qt, bucket, beta_idx, r) ==
    LET old_val == Qt[bucket][beta_idx]
    IN  [Qt EXCEPT ![bucket][beta_idx] =
            RAdd(old_val, RDiv(RSub(r, old_val), alpha10))]

\* one iteration of the loop of _update_Q_from_last_actions
update_Q_cell(Qt, bucket, beta_idx, r) ==
    LET old_val == Qt[bucket][beta_idx]
    IN  [Qt EXCEPT ![bucket][beta_idx] =
            RAdd(old_val, RMul(alpha10, RSub(r, old_val)))]

\* faulty variant of _update_Q_from_last_actions: the pending actions are
\* dropped without being applied
update_Q_skipped(Qt, la, r) == Qt

\* _update_Q_from_last_actions: la is self.last_actions
RECURSIVE update_Q_from_last_actions(_, _, _)
update_Q_from_last_actions(Qt, la, r) ==
    IF la = <<>> THEN Qt
    ELSE update_Q_from_last_actions(
             update_Q_cell(Qt, Head(la)[2][1], Head(la)[2][2], r), Tail(la), r)

\* the sort key of get_ad_bids: c.budget - (get_cumulative_cost(c) or 0.0)
remaining_budget(uid, cc) == RSub(campaign(uid).budget, cc[uid])

\* list.sort(key, reverse=True): stable, largest key first
RECURSIVE InsertDesc(_, _, _)
InsertDesc(sorted, uid, cc) ==
    IF sorted = <<>> THEN <<uid>>
    ELSE IF RLt(remaining_budget(Head(sorted), cc), remaining_budget(uid, cc))
         THEN <<uid>> \o sorted
         ELSE <<Head(sorted)>> \o InsertDesc(Tail(sorted), uid, cc)

RECURSIVE SortDesc(_, _)
SortDesc(ord, cc) ==
    IF ord = <<>> THEN <<>>
    ELSE InsertDesc(SortDesc(SubSeq(ord, 1, Len(ord) - 1), cc), ord[Len(ord)], cc)

\* faulty variant of the truncation of get_ad_bids: the list is cut without
\* being sorted
focus_campaigns_unsorted(ord, cc) ==
    IF Len(ord) > max_active_campaigns
    THEN SubSeq(ord, 1, max_active_campaigns)
    ELSE ord

\* get_ad_bids: the campaigns bid for, from the iteration order of the set
focus_campaigns(ord, cc) ==
    IF Len(ord) > max_active_campaigns
    THEN SubSeq(SortDesc(ord, cc), 1, max_active_campaigns)
    ELSE ord

\* faulty variant of the skip test: the remaining reach is not looked at
nothing_left10_budget_only(R_left, B_left) == RLe(B_left, RInt(0))

\* get_ad_bids: "Nothing left to do?"
nothing_left10(R_left, B_left) == R_left <= 0 \/ RLe(B_left, RInt(0))

\* get_ad_bids: days remaining in the campaign
days_left10(end_day, current_day) == IMax(0, end_day - current_day)

\* get_ad_bids: the divisor of the base CPM
cpm_divisor10(R_left) == IMax(R_left, 1)

\* get_ad_bids: the two clamps of the price
clamp_price10(price, B_left) ==
    RMin(RMax(min_price, RMin(price, B_left)), max_price)

\* faulty variant of self.last_actions.clear(): the entries are kept
not_cleared(d) == d

\* self.last_actions.clear() of on_new_game and get_ad_bids
cleared(d) == <<>>

\* the body of the loop of get_ad_bids for campaign uid; acc carries the
\* bundles, self.last_actions, the day each of its entries was recorded and
\* the exception raised so far
bid_one10(acc, uid, draws, current_day, Qt, eps, cr, cc) ==
    LET c == campaign(uid)
        impressions_won == cr[uid]
        cost_so_far == cc[uid]
        R_left == IMax(0, c.reach - impressions_won)
        B_left == RMax(RInt(0), RSub(c.budget, cost_so_far))
        days_left == days_left10(c.end_day, current_day)
        bucket == urgency_bucket(days_left)
        beta_idx == select_beta_idx(Qt[bucket], eps, draws[uid][1], draws[uid][2])
        beta == beta_grid10(beta_idx)
        divisor == cpm_divisor10(R_left)
        base_cpm == RDiv(B_left, RInt(divisor))
        price == clamp_price10(RMul(beta, base_cpm), B_left)
        bid_limit == B_left
        bundle == [campaign_id |-> c.uid, limit |-> bid_limit,
                   bid_per_item |-> price, bid_limit |-> bid_limit]
    IN  IF acc.err # "none" THEN acc
        ELSE IF nothing_left10(R_left, B_left) THEN acc
        ELSE IF divisor = 0 THEN [acc EXCEPT !.err = "ZeroDivisionError"]
        ELSE [bundles |-> acc.bundles \cup {bundle},
              la |-> DictSet(acc.la, c.uid, <<bucket, beta_idx>>),
              born |-> DictSet(acc.born, c.uid, <<game, day>>),
              err |-> "none"]

RECURSIVE bid_loop10(_, _, _, _, _, _, _, _)
bid_loop10(acc, ord, draws, current_day, Qt, eps, cr, cc) ==
    IF ord = <<>> THEN acc
    ELSE bid_loop10(bid_one10(acc, Head(ord), draws, current_day, Qt, eps, cr, cc),
                    Tail(ord), draws, current_day, Qt, eps, cr, cc)

\* the draws of np.random for one campaign: randint is drawn only to explore
DrawsFor(eps) ==
    {<<r, i>> \in RandDraws \X (RandIntDraws \cup {0}) :
        IF RLt(r, eps) THEN i \in RandIntDraws ELSE i = 0}

\* on_new_game
A10_on_new_game ==
    /\ agent = "agent10"
    /\ phase \in {"idle", "sim"}
    /\ game < MaxGames
    /\ calls < MaxCalls
    /\ calls' = calls
    /\ prev_profit' = RInt(0)
    /\ profit_seen' = RInt(0)
    /\ last_actions' = cleared(last_actions)
    /\ daily_quality_scores' = <<>>
    /\ la_born' = cleared(la_born)
    /\ raised' = "none"
    /\ game' = game + 1
    /\ phase' = "bid"
    /\ day' = 1
    /\ \E w \in SUBSET Uids :
          /\ won' = w
          /\ active' = {u \in w : campaign(u).start_day <= 1}
    /\ cum_reach' = [u \in Uids |-> 0]
    /\ cum_cost' = [u \in Uids |-> RInt(0)]
    /\ profit' = RInt(0)
    /\ bundles' = {}
    /\ applied' = <<>>
    /\ Q_before' = Q
    /\ la_before' = <<>>
    /\ reward' = RInt(0)
    /\ rewards' = rewards
    /\ UNCHANGED <<call, agent, utils_bound, Q, epsilon>>

\* get_ad_bids
A10_get_ad_bids ==
    /\ agent = "agent10"
    /\ phase = "bid"
    /\ calls' = calls + 1
    /\ \E ord \in OrdersOf(active), draws \in [active -> DrawsFor(epsilon)] :
          \E r \in {compute_daily_reward(profit, prev_profit)} :
          \E Q1 \in {update_Q_from_last_actions(Q, last_actions, r)} :
          \E res \in {bid_loop10([bundles |-> {}, la |-> cleared(last_actions),
                                  born |-> cleared(la_born), err |-> "none"],
                                 focus_campaigns(ord, cum_cost), draws, day, Q1,
                                 epsilon, cum_reach, cum_cost)} :
              /\ reward' = r
              /\ rewards' = Append(rewards, <<game, r>>)
              /\ prev_profit' = profit
              /\ Q' = Q1
              /\ daily_quality_scores' =
                    IF daily_quality_scores = <<>>
                       \/ daily_quality_scores[Len(daily_quality_scores)] # day
                    THEN Append(daily_quality_scores, day)
                    ELSE daily_quality_scores
              /\ last_actions' = res.la
              /\ bundles' = IF res.err = "none" THEN res.bundles ELSE {}
              /\ raised' = res.err
              /\ la_born' = res.born
              /\ applied' = la_born
    /\ Q_before' = Q
    /\ la_before' = last_actions
    /\ phase' = "sim"
    /\ UNCHANGED <<call, agent, utils_bound, game, epsilon, profit_seen>>
    /\ UNCHANGED env_vars

(***************************************************************************)
(* agent11: HybridRLAgent                                                  *)
(***************************************************************************)
\* _batch_update_q_table: days left of the campaign on the day of the update
days_left_update11(end_day, current_day) == IMax(0, end_day - current_day + 1)

\* _batch_update_q_table: max_future_q for campaign c with curr_won impressions
max_future_q(Qt, c, curr_won, current_day) ==
    LET days_left == days_left_update11(c.end_day, current_day)
    IN  IF days_left = 0 \/ (c.reach - curr_won) <= 0 THEN RInt(0)
        ELSE LET R_left == IMax(1, c.reach - curr_won)
                 needed == Rat(R_left, days_left)
                 next_idx == get_state_index(days_left, needed, c.reach)
             IN  RowMax(Qt[next_idx])

\* faulty variant of the reward: the cost of the whole campaign is charged
reward11_full_cost(c, prev_won, prev_spent, curr_won, curr_spent) ==
    LET prev_val == RMul(calculate_effective_reach(prev_won, c.reach), c.budget)
        curr_val == RMul(calculate_effective_reach(curr_won, c.reach), c.budget)
    IN  RSub(RSub(curr_val, prev_val), curr_spent)

\* _batch_update_q_table: the reward of one pending action
reward11(c, prev_won, prev_spent, curr_won, curr_spent) ==
    LET prev_val == RMul(calculate_effective_reach(prev_won, c.reach), c.budget)
        curr_val == RMul(calculate_effective_reach(curr_won, c.reach), c.budget)
        value_gained == RSub(curr_val, prev_val)
        cost_incurred == RSub(curr_spent, prev_spent)
    IN  RSub(value_gained, cost_incurred)

\* faulty variant of the skip of _batch_update_q_table: nothing is skipped
stale11_never(c_uid, act) == FALSE

\* _batch_update_q_table: whether the pending action of c_uid is skipped
stale11(c_uid, act) == c_uid \notin act

\* faulty variant of the bootstrapped update: the future value is left out
bootstrap_cell_no_future(Qt, prev_state, action_idx, r, future) ==
    LET curr_q == Qt[prev_state][action_idx]
    IN  [Qt EXCEPT ![prev_state][action_idx] =
            RAdd(curr_q, RMul(alpha11, RSub(r, curr_q)))]

\* faulty variant of the bootstrapped update: the old value is read as the
\* maximum of the row of prev_state
bootstrap_cell_row_max(Qt, prev_state, action_idx, r, future) ==
    LET curr_q == RowMax(Qt[prev_state])
    IN  [Qt EXCEPT ![prev_state][action_idx] =
            RAdd(curr_q,
                 RMul(alpha11, RSub(RAdd(r, RMul(gamma11, future)), curr_q)))]

\* _batch_update_q_table: the assignment to self.Q[prev_state, action_idx]
bootstrap_cell(Qt, prev_state, action_idx, r, future) ==
    LET curr_q == Qt[prev_state][action_idx]
    IN  [Qt EXCEPT ![prev_state][action_idx] =
            RAdd(curr_q,
                 RMul(alpha11, RSub(RAdd(r, RMul(gamma11, future)), curr_q)))]

\* _batch_update_q_table: one iteration of the loop, e = <<c_uid, (prev_state,
\* action_idx, prev_won, prev_spent)>>
batch_update_one(Qt, e, act, current_day, cr, cc) ==
    IF stale11(e[1], act) THEN Qt
    ELSE LET c == campaign(e[1])
         IN  bootstrap_cell(Qt, e[2][1], e[2][2],
                            reward11(c, e[2][3], e[2][4], cr[e[1]], cc[e[1]]),
                            max_future_q(Qt, c, cr[e[1]], current_day))

\* _batch_update_q_table
RECURSIVE batch_update_q_table(_, _, _, _, _, _)
batch_update_q_table(Qt, la, act, current_day, cr, cc) ==
    IF la = <<>> THEN Qt
    ELSE batch_update_q_table(batch_update_one(Qt, Head(la), act, current_day, cr, cc),
                              Tail(la), act, current_day, cr, cc)

\* get_ad_bids: days left of the campaign on the day of the bid
days_left11(end_day, current_day) == IMax(1, end_day - current_day + 1)

\* get_ad_bids: the skip test of the loop
nothing_left11(R_left, B_left) == RLe(B_left, RInt(0)) \/ R_left <= 0

\* get_ad_bids: the clamp of the price
clamp_price11(bid_price, B_left) ==
    RMax(min_price, RMin(RMin(bid_price, B_left), max_price))

\* the body of the loop of get_ad_bids for campaign uid
bid_one11(acc, uid, draws, current_day, Qt, eps, cr, cc) ==
    LET c == campaign(uid)
        won_ == cr[uid]
        spent == cc[uid]
        R_left == IMax(0, c.reach - won_)
        B_left == RMax(RInt(0), RSub(c.budget, spent))
        days_left == days_left11(c.end_day, current_day)
        marginal_utility == calculate_marginal_utility(won_, c.reach)
        true_value_per_impression == RMul(marginal_utility, c.budget)
        needed_per_day == Rat(R_left, days_left)
        state_idx == get_state_index(days_left, needed_per_day, c.reach)
        beta_idx == select_beta_idx(Qt[state_idx], eps, draws[uid][1], draws[uid][2])
        shading_factor == beta_grid11(beta_idx)
        bid_price == clamp_price11(RMul(true_value_per_impression, shading_factor),
                                   B_left)
        bundle == [campaign_id |-> c.uid, limit |-> B_left,
                   bid_per_item |-> bid_price, bid_limit |-> B_left]
    IN  IF acc.err # "none" THEN acc
        ELSE IF nothing_left11(R_left, B_left) THEN acc
        ELSE IF days_left = 0 THEN [acc EXCEPT !.err = "ZeroDivisionError"]
        ELSE [bundles |-> acc.bundles \cup {bundle},
              la |-> DictSet(acc.la, c.uid, <<state_idx, beta_idx, won_, spent>>),
              born |-> DictSet(acc.born, c.uid, <<game, day>>),
              err |-> "none"]

RECURSIVE bid_loop11(_, _, _, _, _, _, _, _)
bid_loop11(acc, ord, draws, current_day, Qt, eps, cr, cc) ==
    IF ord = <<>> THEN acc
    ELSE bid_loop11(bid_one11(acc, Head(ord), draws, current_day, Qt, eps, cr, cc),
                    Tail(ord), draws, current_day, Qt, eps, cr, cc)

\* faulty variant of the decay: the floor epsilon_min is not applied
decay_epsilon_no_floor(eps) == RMul(eps, epsilon_decay)

\* on_new_game: the decay of self.epsilon
decay_epsilon(eps) == RMax(epsilon_min, RMul(eps, epsilon_decay))

\* on_new_game
A11_on_new_game ==
    /\ agent = "agent11"
    /\ phase \in {"idle", "sim"}
    /\ game < MaxGames
    /\ calls < MaxCalls
    /\ calls' = calls
    /\ last_actions' = cleared(last_actions)
    /\ epsilon' = decay_epsilon(epsilon)
    /\ la_born' = cleared(la_born)
    /\ raised' = "none"
    /\ game' = game + 1
    /\ phase' = "bid"
    /\ day' = 1
    /\ \E w \in SUBSET Uids :
          /\ won' = w
          /\ active' = {u \in w : campaign(u).start_day <= 1}
    /\ cum_reach' = [u \in Uids |-> 0]
    /\ cum_cost' = [u \in Uids |-> RInt(0)]
    /\ profit' = RInt(0)
    /\ bundles' = {}
    /\ applied' = <<>>
    /\ Q_before' = Q
    /\ la_before' = <<>>
    /\ reward' = RInt(0)
    /\ rewards' = rewards
    /\ profit_seen' = RInt(0)
    /\ UNCHANGED <<call, agent, utils_bound, Q, prev_profit, daily_quality_scores>>

\* get_ad_bids
A11_get_ad_bids ==
    /\ agent = "agent11"
    /\ phase = "bid"
    /\ calls' = calls + 1
    /\ \E ord \in OrdersOf(active), draws \in [active -> DrawsFor(epsilon)] :
          \E Q1 \in {batch_update_q_table(Q, last_actions, active, day,
                                          cum_reach, cum_cost)} :
          \E res \in {bid_loop11([bundles |-> {}, la |-> cleared(last_actions),
                                  born |-> cleared(la_born), err |-> "none"],
                                 ord, draws, day, Q1, epsilon, cum_reach,
                                 cum_cost)} :
              /\ Q' = Q1
              /\ last_actions' = res.la
              /\ bundles' = IF res.err = "none" THEN res.bundles ELSE {}
              /\ raised' = res.err
              /\ la_born' = res.born
    /\ applied' = SelectSeq(la_born, LAMBDA b : ~stale11(b[1], active))
    /\ Q_before' = Q
    /\ la_before' = last_actions
    /\ phase' = "sim"
    /\ UNCHANGED <<call, agent, utils_bound, game, epsilon, prev_profit, profit_seen, reward,
                   rewards, daily_quality_scores>>
    /\ UNCHANGED env_vars

(***************************************************************************)
(* agent7: BasicBot                                                        *)
(***************************************************************************)
\* get_ad_bids: bid_per_item
bid_per_item7(shade, budget_remaining, reach_remaining) ==
    IF reach_remaining # 0
    THEN RDiv(RMul(shade, budget_remaining), RInt(reach_remaining))
    ELSE RInt(0)

\* get_ad_bids: the bundle of one campaign
bundle7(uid, shade, cr, cc) ==
    LET c == campaign(uid)
        budget_remaining == RSub(c.budget, cc[uid])
        reach_remaining == c.reach - cr[uid]
    IN  [campaign_id |-> c.uid, limit |-> budget_remaining,
         bid_per_item |-> bid_per_item7(shade, budget_remaining, reach_remaining),
         bid_limit |-> budget_remaining]

\* on_new_game: pass
A7_on_new_game ==
    /\ agent = "agent7"
    /\ phase \in {"idle", "sim"}
    /\ game < MaxGames
    /\ calls < MaxCalls
    /\ calls' = calls
    /\ raised' = "none"
    /\ game' = game + 1
    /\ phase' = "bid"
    /\ day' = 1
    /\ \E w \in SUBSET Uids :
          /\ won' = w
          /\ active' = {u \in w : campaign(u).start_day <= 1}
    /\ cum_reach' = [u \in Uids |-> 0]
    /\ cum_cost' = [u \in Uids |-> RInt(0)]
    /\ profit' = RInt(0)
    /\ bundles' = {}
    /\ profit_seen' = RInt(0)
    /\ UNCHANGED <<call, agent, utils_bound, Q, last_actions, prev_profit, epsilon,
                   la_born, daily_quality_scores, applied, Q_before, la_before,
                   reward, rewards>>

\* get_ad_bids; the name campaign_utils is bound by no import of agent7.py
A7_get_ad_bids ==
    /\ agent = "agent7"
    /\ phase = "bid"
    /\ calls' = calls + 1
    /\ IF active # {} /\ ~utils_bound
       THEN /\ raised' = "NameError"
            /\ bundles' = {}
       ELSE /\ raised' = "none"
            /\ \E shade \in [active -> ShadeDraws] :
                  bundles' = {bundle7(u, shade[u], cum_reach, cum_cost) : u \in active}
    /\ phase' = "sim"
    /\ UNCHANGED <<call, agent, utils_bound, game, Q, last_actions, prev_profit, profit_seen,
                   epsilon, la_born, daily_quality_scores, applied, Q_before,
                   la_before, reward, rewards>>
    /\ UNCHANGED env_vars

(***************************************************************************)
(* The simulator                                                           *)
(***************************************************************************)
\* the bundle of campaign uid among bs, as a set of at most one element
BundleOf(bs, uid) == {b \in bs : b.campaign_id = uid}

\* what a day of auctions can bring campaign uid: the price paid per
\* impression is at most the bid, the spend at most the limit
DayOutcomes(bs, uid) ==
    IF BundleOf(bs, uid) = {} THEN {<<0, RInt(0)>>}
    ELSE LET b == CHOOSE x \in BundleOf(bs, uid) : TRUE
         IN  {o \in DayChoices :
                 \/ o[1] = 0
                 \/ /\ RLe(o[2], b.bid_per_item)
                    /\ RLe(RMul(RInt(o[1]), o[2]), b.limit)}

\* one day of ad auctions, the profit update and the move to the next day.
\* The simulator is not part of the repository: the active set of the next
\* day holds the campaigns running that day, and a campaign that ended today
\* may still be handed over once more (agent11 tests for days_left == 0).
SimulateDay ==
    /\ phase = "sim"
    /\ calls < MaxCalls
    /\ calls' = calls
    /\ \E out \in [Uids -> DayChoices] :
          /\ \A u \in Uids : out[u] \in DayOutcomes(bundles, u)
          /\ cum_reach' = [u \in Uids |-> cum_reach[u] + out[u][1]]
          /\ cum_cost' = [u \in Uids |->
                            RAdd(cum_cost[u], RMul(RInt(out[u][1]), out[u][2]))]
    /\ \E dp \in ProfitDeltas : profit' = RAdd(profit, dp)
    /\ day' = day + 1
    /\ \E linger \in SUBSET {u \in active : campaign(u).end_day = day} :
          active' = {u \in won : campaign(u).start_day <= day + 1
                                 /\ day + 1 <= campaign(u).end_day} \cup linger
    /\ phase' = "bid"
    /\ bundles' = {}
    /\ applied' = <<>>
    /\ Q_before' = Q
    /\ la_before' = <<>>
    /\ reward' = RInt(0)
    /\ rewards' = rewards
    /\ profit_seen' = profit
    /\ UNCHANGED <<call, agent, utils_bound, game, won, Q, last_actions, prev_profit,
                   epsilon, raised, la_born, daily_quality_scores>>

Next ==
    \/ A10_on_new_game
    \/ A10_get_ad_bids
    \/ A11_on_new_game
    \/ A11_get_ad_bids
    \/ A7_on_new_game
    \/ A7_get_ad_bids
    \/ SimulateDay

Spec == Init /\ [][Next]_vars

(***************************************************************************)
(* agent11 late in its life: the games around the floor of epsilon         *)
(***************************************************************************)
\* self.epsilon after 198 calls of on_new_game: 0.985^198 = 0.0501618...,
\* to five places
epsilon_198 == Rat(627, 12500)

\* an agent11 object before a game: just constructed, or 198 games old
\* having held no campaign so far; game and calls count from here
InitLate ==
    /\ call = NoCall
    /\ agent = "agent11"
    /\ utils_bound = FALSE
    /\ phase = "idle"
    /\ game = 0
    /\ calls = 0
    /\ day = 0
    /\ won = {}
    /\ active = {}
    /\ cum_reach = [u \in Uids |-> 0]
    /\ cum_cost = [u \in Uids |-> RInt(0)]
    /\ profit = RInt(0)
    /\ Q = ZeroQ(num_states)
    /\ last_actions = <<>>
    /\ prev_profit = RInt(0)
    /\ profit_seen = RInt(0)
    /\ epsilon \in {epsilon_init, epsilon_198}
    /\ bundles = {}
    /\ raised = "none"
    /\ la_born = <<>>
    /\ daily_quality_scores = <<>>
    /\ applied = <<>>
    /\ Q_before = Q
    /\ la_before = <<>>
    /\ reward = RInt(0)
    /\ rewards = <<>>

NextLate ==
    \/ A11_on_new_game
    \/ A11_get_ad_bids
    \/ SimulateDay

SpecLate == InitLate /\ [][NextLate]_vars

(***************************************************************************)
(* agent2: TrialNDaysNCampaignsAgent                                       *)
(***************************************************************************)
\* NDaysNCampaignsAgent.effective_reach, the reach curve of the base class:
\* the same curve as agent11's, with the fallback 0 for R <= 0
effective_reach(x, R) ==
    IF R <= 0 THEN RInt(0)
    ELSE LET term1 == AtanMilli(curve_u(x, R))
             term2 == AtanMilli(RNeg(curve_b))
         IN  Rat(RoundDiv(2 * curve_a[2] * (term1 - term2), curve_a[1]), 1000)

\* generate_ad_bid: avg_vpi
avg_vpi(impressions_won, reach, budget) ==
    LET full_campaign_rho == effective_reach(reach, reach)
        current_campaign_rho == effective_reach(impressions_won, reach)
        remaining_rho == RSub(full_campaign_rho, current_campaign_rho)
    IN  IF reach - impressions_won > 0
        THEN RDiv(RMul(remaining_rho, budget), RInt(reach - impressions_won))
        ELSE RInt(0)

\* generate_ad_bid: the price of the Bid of one campaign; the division
\* impressions_won / campaign.reach of the bumper raises for reach 0
generate_ad_bid(shade_param, impressions_won, reach, budget) ==
    IF reach = 0
    THEN [raised |-> "ZeroDivisionError",
          avg_vpi |-> avg_vpi(impressions_won, reach, budget),
          bid_per_item |-> RInt(0)]
    ELSE LET bumper == RMul(Rat(5, 100), Rat(impressions_won, reach))
         IN  [raised |-> "none",
              avg_vpi |-> avg_vpi(impressions_won, reach, budget),
              bid_per_item |-> RMul(RAdd(shade_param, bumper),
                                    avg_vpi(impressions_won, reach, budget))]

\* get_ad_bids: the bundles of one active campaign
get_ad_bids2(shade_param, impressions_won, reach, budget, cost_so_far) ==
    LET remaining_reach == IMax(0, reach - impressions_won)
        budget_left == RMax(RInt(0), RSub(budget, cost_so_far))
        bid == generate_ad_bid(shade_param, impressions_won, reach, budget)
    IN  IF remaining_reach = 0 \/ RLe(budget_left, RInt(0))
        THEN [raised |-> "none", bundles |-> {}]
        ELSE [raised |-> bid.raised,
              bundles |-> IF bid.raised # "none" THEN {}
                          ELSE {[bid_per_item |-> bid.bid_per_item,
                                 bid_limit |-> budget_left,
                                 limit |-> budget_left]}]

(***************************************************************************)
(* agent4: MyNDaysNCampaignsAgent, and ShadedAgent of test_shades          *)
(***************************************************************************)
\* faulty variant of avg_value_per_impression: the remaining value spread
\* over the whole reach
avg_value_per_reach(impressions_won, reach, budget) ==
    LET remaining_reach == reach - impressions_won
        current_rho == effective_reach(impressions_won, reach)
        target_rho == effective_reach(reach, reach)
        delta_rho == RSub(target_rho, current_rho)
    IN  IF remaining_reach > 0
        THEN RDiv(RMul(delta_rho, budget), RInt(reach))
        ELSE RInt(0)

\* get_ad_bids of both classes: avg_value_per_impression
avg_value_per_impression(impressions_won, reach, budget) ==
    LET remaining_reach == reach - impressions_won
        current_rho == effective_reach(impressions_won, reach)
        target_rho == effective_reach(reach, reach)
        delta_rho == RSub(target_rho, current_rho)
    IN  IF remaining_reach > 0
        THEN RDiv(RMul(delta_rho, budget), RInt(remaining_reach))
        ELSE RInt(0)

\* get_ad_bids of both classes: the guard on the price and the bundle
emit4(bid_per_item, bid_limit) ==
    IF RLe(bid_per_item, RInt(0)) \/ RLe(bid_limit, RInt(0)) THEN {}
    ELSE {[bid_per_item |-> bid_per_item, bid_limit |-> bid_limit,
           limit |-> bid_limit]}

\* agent4 get_ad_bids: the bundles of one active campaign
get_ad_bids4(impressions_won, reach, budget, cost_so_far) ==
    LET budget_left == RMax(RInt(0), RSub(budget, cost_so_far))
        bid_limit == budget_left
        bid_per_item == RMin(avg_value_per_impression(impressions_won, reach, budget),
                             bid_limit)
    IN  IF RLe(budget_left, RInt(0)) THEN [raised |-> "none", bundles |-> {}]
        ELSE IF impressions_won >= reach THEN [raised |-> "none", bundles |-> {}]
        ELSE [raised |-> "none", bundles |-> emit4(bid_per_item, bid_limit)]

\* what self._marginal_effective_reach, a method no class of the repository
\* defines, may do: raise AttributeError, or return the value of a method
\* of that name
MarginalDraws == {<<"AttributeError">>, RInt(0), Rat(1, 10)}

\* ShadedAgent get_ad_bids: the bundles of one active campaign
get_ad_bids_shaded(base_shade, marginal_rho, impressions_won, reach, budget, cost_so_far) ==
    LET budget_left == RMax(RInt(0), RSub(budget, cost_so_far))
        avg == avg_value_per_impression(impressions_won, reach, budget)
        marginal_value_per_impression == RMul(marginal_rho, budget)
        progress_shade == IF RLt(RInt(0), avg)
                          THEN RDiv(marginal_value_per_impression, avg)
                          ELSE RInt(1)
        bid_limit == budget_left
        bid_per_item == RMin(RMul(avg, RAdd(progress_shade, base_shade)), bid_limit)
    IN  IF RLe(budget_left, RInt(0)) THEN [raised |-> "none", bundles |-> {}]
        ELSE IF impressions_won >= reach THEN [raised |-> "none", bundles |-> {}]
        ELSE IF marginal_rho = <<"AttributeError">>
        THEN [raised |-> "AttributeError", bundles |-> {}]
        ELSE [raised |-> "none", bundles |-> emit4(bid_per_item, bid_limit)]

(***************************************************************************)
(* The campaign auctions: get_campaign_bids of agent10, agent4, my_agent   *)
(***************************************************************************)
\* self.max_active_campaigns of agent4 and of my_agent
max_active_campaigns4 == 5
max_active_campaigns_my == 4

\* self.segment_sizes, for the three atomic segments the calls are made with
segment_sizes(name) ==
    IF name = "Female_Young_HighIncome" THEN 256
    ELSE IF name = "Female_Old_LowIncome" THEN 2401
    ELSE 1795

\* the campaigns a call may be offered; None stands for a None in the set
None == [uid |-> 0, reach |-> 0, start_day |-> 0, end_day |-> 0, seg |-> "None"]

AuctionPool ==
    {[uid |-> 11, reach |-> 240, start_day |-> 1, end_day |-> 1,
      seg |-> "Female_Young_HighIncome"],
     [uid |-> 12, reach |-> 900, start_day |-> 1, end_day |-> 2,
      seg |-> "Female_Old_LowIncome"],
     [uid |-> 13, reach |-> 300, start_day |-> 2, end_day |-> 4,
      seg |-> "Female_Young_HighIncome"],
     [uid |-> 14, reach |-> 300, start_day |-> 1, end_day |-> 2,
      seg |-> "Female_Young_HighIncome"],
     [uid |-> 15, reach |-> 1000, start_day |-> 1, end_day |-> 3,
      seg |-> "Female_Old_LowIncome"],
     None}

MaxAuction == 2
MaxActive == 5

\* campaigns_for_auction in the order the loop meets them
AuctionOrders ==
    UNION {{f \in [1..n -> AuctionPool] : \A i, j \in 1..n : f[i] = f[j] => i = j} :
           n \in 0..MaxAuction}

\* the segments of the active campaigns and of the campaigns offered
Segments == {"Female_Old_LowIncome", "Female_Young_HighIncome", "Male_Old_LowIncome"}

\* the active campaigns of the agent: how many run on each segment
ActiveDraws ==
    {a \in [Segments -> 0..MaxActive] :
        /\ a["Female_Old_LowIncome"] <= 2
        /\ a["Female_Young_HighIncome"] <= 2
        /\ a["Female_Old_LowIncome"] + a["Female_Young_HighIncome"]
               + a["Male_Old_LowIncome"] <= MaxActive}

active_count_of(act) ==
    act["Female_Old_LowIncome"] + act["Female_Young_HighIncome"] + act["Male_Old_LowIncome"]

\* clip_campaign_bid of the base class: the bid brought into [0.1 R, R]
clip_campaign_bid(c, bid) == RMax(Rat(c.reach, 10), RMin(RInt(c.reach), bid))

\* agent10 get_campaign_bids: the duration filter
short_campaign10(c) == c.end_day - c.start_day < 2

\* agent10 get_campaign_bids: the loop over campaigns_for_auction; invalid is
\* the set of uids is_valid_campaign_bid rejects
RECURSIVE bid_loop_auction10(_, _, _, _)
bid_loop_auction10(auction, active_count, invalid, bids) ==
    IF auction = <<>> THEN bids
    ELSE LET c == Head(auction)
             bid_val == clip_campaign_bid(c, RMul(Rat(9, 10), RInt(c.reach)))
             skip == \/ c = None
                     \/ short_campaign10(c)
                     \/ (active_count >= max_active_campaigns - 1 /\ c.reach < 800)
                     \/ c.uid \in invalid
         IN  bid_loop_auction10(Tail(auction), active_count, invalid,
                                IF skip THEN bids ELSE Append(bids, <<c.uid, bid_val>>))

\* agent10 get_campaign_bids
get_campaign_bids10(auction, active_count, invalid) ==
    IF active_count >= max_active_campaigns THEN <<>>
    ELSE bid_loop_auction10(auction, active_count, invalid, <<>>)

\* campaign.reach / total_est_imps of agent4 and my_agent, as a rational
fraction_needed(c) ==
    Rat(c.reach, segment_sizes(c.seg) * (c.end_day - c.start_day + 1))

\* agent4 get_campaign_bids: a campaign that passes the filters
is_candidate4(c, act) ==
    /\ c # None
    /\ c.end_day - c.start_day + 1 > 0
    /\ c.end_day - c.start_day + 1 # 1
    /\ ~RLt(Rat(1, 2), fraction_needed(c))
    /\ ~(act[c.seg] >= 1)

\* list.sort(key=fraction_needed): stable, smallest key first
RECURSIVE InsertByFraction(_, _)
InsertByFraction(sorted, c) ==
    IF sorted = <<>> THEN <<c>>
    ELSE IF RLt(fraction_needed(c), fraction_needed(Head(sorted)))
         THEN <<c>> \o sorted
         ELSE <<Head(sorted)>> \o InsertByFraction(Tail(sorted), c)

RECURSIVE SortByFraction(_)
SortByFraction(cands) ==
    IF cands = <<>> THEN <<>>
    ELSE InsertByFraction(SortByFraction(SubSeq(cands, 1, Len(cands) - 1)),
                          cands[Len(cands)])

\* faulty variant of the second loop of agent4: the count is never compared
\* with max_new_campaigns
RECURSIVE take_all4(_, _, _, _)
take_all4(cands, max_new_campaigns, invalid, bids) ==
    IF cands = <<>> THEN bids
    ELSE LET c == Head(cands)
         IN  take_all4(Tail(cands), max_new_campaigns, invalid,
                       IF c.uid \in invalid THEN bids
                       ELSE Append(bids, <<c.uid, RInt(c.reach)>>))

\* agent4 get_campaign_bids: the second loop, over the sorted candidates
RECURSIVE take_candidates4(_, _, _, _)
take_candidates4(cands, max_new_campaigns, invalid, bids) ==
    IF cands = <<>> \/ Len(bids) >= max_new_campaigns THEN bids
    ELSE LET c == Head(cands)
         IN  take_candidates4(Tail(cands), max_new_campaigns, invalid,
                              IF c.uid \in invalid THEN bids
                              ELSE Append(bids, <<c.uid, RInt(c.reach)>>))

\* agent4 get_campaign_bids
get_campaign_bids4(auction, act, invalid) ==
    IF active_count_of(act) >= max_active_campaigns4 THEN <<>>
    ELSE take_candidates4(
             SortByFraction(SelectSeq(auction, LAMBDA c : is_candidate4(c, act))),
             max_active_campaigns4 - active_count_of(act), invalid, <<>>)

\* my_agent get_campaign_bids: a campaign that passes the filters
is_candidate_my(c) ==
    /\ c # None
    /\ c.end_day - c.start_day + 1 > 0
    /\ ~(RLt(Rat(8, 10), fraction_needed(c)) /\ c.end_day - c.start_day + 1 = 1)
    /\ ~RLt(Rat(12, 10), fraction_needed(c))

\* my_agent get_campaign_bids: the score of a candidate
score_my(c, act) ==
    LET w_difficulty == IF RLe(fraction_needed(c), Rat(4, 10)) THEN Rat(13, 10)
                        ELSE IF RLe(fraction_needed(c), Rat(7, 10)) THEN RInt(1)
                        ELSE Rat(6, 10)
        w_overlap == IF act[c.seg] = 0 THEN Rat(12, 10)
                     ELSE IF act[c.seg] = 1 THEN Rat(8, 10)
                     ELSE Rat(5, 10)
        base_scale == Rat(c.reach, c.end_day - c.start_day + 1)
    IN  RMul(RMul(base_scale, w_difficulty), w_overlap)

\* list.sort(key=score, reverse=True): stable, largest key first
RECURSIVE InsertByScore(_, _, _)
InsertByScore(sorted, c, act) ==
    IF sorted = <<>> THEN <<c>>
    ELSE IF RLt(score_my(Head(sorted), act), score_my(c, act))
         THEN <<c>> \o sorted
         ELSE <<Head(sorted)>> \o InsertByScore(Tail(sorted), c, act)

RECURSIVE SortByScore(_, _)
SortByScore(cands, act) ==
    IF cands = <<>> THEN <<>>
    ELSE InsertByScore(SortByScore(SubSeq(cands, 1, Len(cands) - 1), act),
                       cands[Len(cands)], act)

\* my_agent get_campaign_bids: the bid on a candidate
bid_value_my(c, act, max_score, quality_score) ==
    LET norm_score == IF RLt(RInt(0), max_score)
                      THEN RDiv(score_my(c, act), max_score) ELSE RInt(0)
        m0 == RAdd(Rat(2, 10), RMul(Rat(4, 10), norm_score))
        m1 == IF RLt(Rat(7, 10), fraction_needed(c)) THEN RMul(m0, Rat(9, 10))
              ELSE IF RLt(fraction_needed(c), Rat(4, 10)) THEN RMul(m0, Rat(105, 100))
              ELSE m0
        m2 == IF RLt(Rat(11, 10), quality_score) THEN RMul(m1, Rat(95, 100))
              ELSE IF RLt(quality_score, Rat(9, 10)) THEN RMul(m1, Rat(105, 100))
              ELSE m1
        bid_multiplier == RMax(Rat(15, 100), RMin(Rat(7, 10), m2))
    IN  RMax(Rat(c.reach, 10),
             RMin(RMul(RInt(c.reach), bid_multiplier), RInt(c.reach)))

\* my_agent get_campaign_bids: the second loop, over the sorted candidates
RECURSIVE take_candidates_my(_, _, _, _, _, _, _)
take_candidates_my(cands, max_new_campaigns, invalid, act, max_score, quality_score, bids) ==
    IF cands = <<>> \/ Len(bids) >= max_new_campaigns THEN bids
    ELSE LET c == Head(cands)
         IN  take_candidates_my(
                 Tail(cands), max_new_campaigns, invalid, act, max_score, quality_score,
                 IF c.uid \in invalid THEN bids
                 ELSE Append(bids, <<c.uid, bid_value_my(c, act, max_score,
                                                         quality_score)>>))

\* my_agent get_campaign_bids
get_campaign_bids_my(auction, act, invalid, quality_score) ==
    LET candidates == SortByScore(SelectSeq(auction, is_candidate_my), act)
    IN  IF active_count_of(act) >= max_active_campaigns_my THEN <<>>
        ELSE IF candidates = <<>> THEN <<>>
        ELSE take_candidates_my(candidates,
                                max_active_campaigns_my - active_count_of(act),
                                invalid, act, score_my(candidates[1], act),
                                quality_score, <<>>)

(***************************************************************************)
(* my_agent: MyNDaysNCampaignsAgent ("smart bidder"), get_ad_bids          *)
(***************************************************************************)
\* int(round(n / d)) for n >= 0 and d > 0: Python rounds a half to the even
\* neighbour
PyRound(n, d) ==
    LET q == n \div d
        r2 == 2 * (n % d)
    IN  IF r2 < d THEN q
        ELSE IF r2 > d THEN q + 1
        ELSE IF q % 2 = 0 THEN q ELSE q + 1

\* get_ad_bids: target_reach
target_reach_my(reach) == IMax(1, PyRound(95 * reach, 100))

\* get_ad_bids: the urgency factor
urgency_my(impressions_won, target_reach, start_day, end_day, current_day) ==
    LET total_duration == IMax(1, end_day - start_day + 1)
        days_elapsed == IMax(0, current_day - start_day)
        days_left == IMax(1, end_day - current_day + 1)
        completion_frac == Rat(impressions_won, target_reach)
        time_frac == Rat(days_elapsed, total_duration)
        progress_ratio == IF RLt(RInt(0), time_frac)
                          THEN RDiv(completion_frac, time_frac) ELSE RInt(1)
    IN  IF days_left <= 1 /\ impressions_won < target_reach THEN RInt(2)
        ELSE IF RLt(progress_ratio, Rat(8, 10)) THEN Rat(15, 10)
        ELSE IF RLt(Rat(12, 10), progress_ratio) THEN Rat(7, 10)
        ELSE RInt(1)

\* get_ad_bids: the bundles of one active campaign
get_ad_bids_my(impressions_won, reach, budget, cost_so_far, start_day, end_day, current_day) ==
    LET budget_left == RMax(RInt(0), RSub(budget, cost_so_far))
        target_reach == target_reach_my(reach)
        remaining_reach == IMax(1, target_reach - impressions_won)
        days_left == IMax(1, end_day - current_day + 1)
        base_bid == RDiv(budget_left, RInt(remaining_reach))
        bid_per_item == RMax(Rat(10, 100),
                             RMin(Rat(125, 100),
                                  RMul(base_bid, urgency_my(impressions_won, target_reach,
                                                            start_day, end_day,
                                                            current_day))))
        bid_limit == IF days_left > 1
                     THEN RMin(budget_left,
                               RMul(RDiv(budget_left, RInt(days_left)), Rat(15, 10)))
                     ELSE budget_left
    IN  IF RLe(budget_left, RInt(0)) THEN [raised |-> "none", bundles |-> {}]
        ELSE IF impressions_won >= target_reach THEN [raised |-> "none", bundles |-> {}]
        ELSE [raised |-> "none",
              bundles |-> {[bid_per_item |-> bid_per_item, bid_limit |-> bid_limit,
                            limit |-> bid_limit]}]

(***************************************************************************)
(* The helpers called directly, on arguments drawn from bounded sets       *)
(***************************************************************************)
agent_vars == <<agent, utils_bound, phase, game, calls, day, won, active, cum_reach,
                cum_cost, profit, Q, last_actions, prev_profit, profit_seen, epsilon,
                bundles, raised, la_born, daily_quality_scores, applied,
                Q_before, la_before, reward, rewards>>

\* a Q-table row: base everywhere but v at i and w at j
TestRow(base, i, v, j, w) ==
    [a \in 0..(NumActions - 1) |->
        IF a = j THEN RInt(w) ELSE IF a = i THEN RInt(v) ELSE RInt(base)]

TestValues == {-1, 1, 2}

Call_urgency_bucket ==
    /\ call = NoCall
    /\ \E d \in 0..MaxDaysLeft :
          call' = [fn |-> "_urgency_bucket", args |-> <<d>>,
                   result |-> urgency_bucket(d)]
    /\ UNCHANGED agent_vars

Call_get_state_index ==
    /\ call = NoCall
    /\ \E d \in 0..MaxDaysLeft, n \in 0..MaxReach, m \in 1..MaxDaysLeft,
          total_reach \in 0..MaxReach :
          call' = [fn |-> "_get_state_index", args |-> <<d, Rat(n, m), total_reach>>,
                   result |-> get_state_index(d, Rat(n, m), total_reach)]
    /\ UNCHANGED agent_vars

Call_select_beta_idx ==
    /\ call = NoCall
    /\ \E base \in {-2, 0}, i, j \in 0..(NumActions - 1), v, w \in TestValues,
          eps \in {RInt(0), eps10, epsilon_init}, rand \in RandDraws,
          randint \in RandIntDraws :
          call' = [fn |-> "select_beta_idx",
                   args |-> <<TestRow(base, i, v, j, w), eps, rand, randint>>,
                   result |-> select_beta_idx(TestRow(base, i, v, j, w), eps,
                                              rand, randint)]
    /\ UNCHANGED agent_vars

\* the values of shade_param the calls are made with
ShadeParams == {RInt(0), Rat(2, 5)}

\* the cumulative costs and budgets the calls are made with
CostDraws == {RInt(0), Rat(1, 2), Rat(59, 10), RInt(6)}
BudgetDraws == {RInt(1), RInt(6)}

Call_calculate_effective_reach ==
    /\ call = NoCall
    /\ \E x \in 0..MaxImpr, R \in (-NegReach)..MaxReach :
          call' = [fn |-> "_calculate_effective_reach", args |-> <<x, R>>,
                   result |-> calculate_effective_reach(x, R)]
    /\ UNCHANGED agent_vars

Call_calculate_marginal_utility ==
    /\ call = NoCall
    /\ \E x \in 0..MaxImpr, R \in (-NegReach)..MaxReach :
          call' = [fn |-> "_calculate_marginal_utility", args |-> <<x, R>>,
                   result |-> calculate_marginal_utility(x, R)]
    /\ UNCHANGED agent_vars

Call_generate_ad_bid ==
    /\ call = NoCall
    /\ \E shade_param \in ShadeParams, x \in 0..MaxImpr,
          R \in (-NegReach)..MaxReach, budget \in BudgetDraws :
          call' = [fn |-> "generate_ad_bid", args |-> <<shade_param, x, R, budget>>,
                   result |-> generate_ad_bid(shade_param, x, R, budget)]
    /\ UNCHANGED agent_vars

Call_get_ad_bids2 ==
    /\ call = NoCall
    /\ \E shade_param \in ShadeParams, x \in 0..MaxImpr, R \in 0..MaxReach,
          budget \in BudgetDraws, cost \in CostDraws :
          call' = [fn |-> "agent2.get_ad_bids",
                   args |-> <<shade_param, x, R, budget, cost>>,
                   result |-> get_ad_bids2(shade_param, x, R, budget, cost)]
    /\ UNCHANGED agent_vars

Call_get_ad_bids4 ==
    /\ call = NoCall
    /\ \E x \in 0..MaxImpr, R \in 0..MaxReach, budget \in BudgetDraws,
          cost \in CostDraws :
          call' = [fn |-> "agent4.get_ad_bids", args |-> <<x, R, budget, cost>>,
                   result |-> get_ad_bids4(x, R, budget, cost)]
    /\ UNCHANGED agent_vars

Call_get_ad_bids_shaded ==
    /\ call = NoCall
    /\ \E base_shade \in ShadeParams, marginal_rho \in MarginalDraws,
          x \in 0..MaxImpr, R \in 0..MaxReach, budget \in BudgetDraws,
          cost \in CostDraws :
          call' = [fn |-> "ShadedAgent.get_ad_bids",
                   args |-> <<base_shade, marginal_rho, x, R, budget, cost>>,
                   result |-> get_ad_bids_shaded(base_shade, marginal_rho, x, R,
                                                 budget, cost)]
    /\ UNCHANGED agent_vars

Call_avg_value_per_impression ==
    /\ call = NoCall
    /\ \E x \in 0..MaxImpr, R \in (-NegReach)..MaxReach, budget \in BudgetDraws :
          call' = [fn |-> "avg_value_per_impression", args |-> <<x, R, budget>>,
                   result |-> avg_value_per_impression(x, R, budget)]
    /\ UNCHANGED agent_vars

\* the learning rates self.alpha the repeated update is run with: the one
\* __init__ sets, and two more of (0, 1]
AlphaDraws == {alpha10, Rat(1, 2), RInt(1)}
MaxUpdates == 6

\* faulty variant of the plain update with self.alpha given: the old value
\* is not subtracted
update_Q_cell_with_additive(alpha, Qt, bucket, beta_idx, r) ==
    LET old_val == Qt[bucket][beta_idx]
    IN  [Qt EXCEPT ![bucket][beta_idx] = RAdd(old_val, RMul(alpha, r))]

\* one iteration of the loop of _update_Q_from_last_actions, self.alpha given
update_Q_cell_with(alpha, Qt, bucket, beta_idx, r) ==
    LET old_val == Qt[bucket][beta_idx]
    IN  [Qt EXCEPT ![bucket][beta_idx] =
            RAdd(old_val, RMul(alpha, RSub(r, old_val)))]

\* _update_Q_from_last_actions(1.0) on a new agent whose last_actions holds
\* the one pair (bucket, beta_idx)
Call_update_Q_first ==
    /\ call = NoCall
    /\ \E alpha \in AlphaDraws, bucket \in 0..(num_buckets - 1),
          beta_idx \in 0..(NumActions - 1) :
          call' = [fn |-> "_update_Q_from_last_actions",
                   args |-> <<alpha, bucket, beta_idx, 1>>,
                   result |-> update_Q_cell_with(alpha, ZeroQ(num_buckets), bucket,
                                                 beta_idx, RInt(1))]
    /\ UNCHANGED agent_vars

\* the same call once more, on the table the calls before left
Call_update_Q_again ==
    /\ call.fn = "_update_Q_from_last_actions"
    /\ call.args[4] < MaxUpdates
    /\ call' = [call EXCEPT
                  !.args = <<call.args[1], call.args[2], call.args[3], call.args[4] + 1>>,
                  !.result = update_Q_cell_with(call.args[1], call.result, call.args[2],
                                                call.args[3], RInt(1))]
    /\ UNCHANGED agent_vars

\* the uids is_valid_campaign_bid rejects in a call: none, or one campaign
InvalidDraws == {{}} \cup {{c.uid} : c \in AuctionPool \ {None}}

Call_get_campaign_bids10 ==
    /\ call = NoCall
    /\ \E auction \in AuctionOrders, active_count \in 0..MaxActive,
          invalid \in InvalidDraws :
          call' = [fn |-> "agent10.get_campaign_bids",
                   args |-> <<auction, active_count, invalid>>,
                   result |-> get_campaign_bids10(auction, active_count, invalid)]
    /\ UNCHANGED agent_vars

Call_get_campaign_bids4 ==
    /\ call = NoCall
    /\ \E auction \in AuctionOrders, act \in ActiveDraws, invalid \in InvalidDraws :
          call' = [fn |-> "agent4.get_campaign_bids",
                   args |-> <<auction, active_count_of(act), invalid, act>>,
                   result |-> get_campaign_bids4(auction, act, invalid)]
    /\ UNCHANGED agent_vars

Call_get_campaign_bids_my ==
    /\ call = NoCall
    /\ \E auction \in AuctionOrders, act \in ActiveDraws, invalid \in InvalidDraws,
          quality_score \in {RInt(1), Rat(4, 5)} :
          call' = [fn |-> "my_agent.get_campaign_bids",
                   args |-> <<auction, active_count_of(act), invalid, act, quality_score>>,
                   result |-> get_campaign_bids_my(auction, act, invalid, quality_score)]
    /\ UNCHANGED agent_vars

\* start_day, end_day of a campaign and the current day of a call
TimeDraws == {<<1, 1, 1>>, <<1, 3, 1>>, <<1, 3, 2>>, <<1, 3, 3>>}

Call_get_ad_bids_my ==
    /\ call = NoCall
    /\ \E x \in 0..MaxImpr, R \in 0..MaxReach, budget \in BudgetDraws,
          cost \in CostDraws, t \in TimeDraws :
          call' = [fn |-> "my_agent.get_ad_bids",
                   args |-> <<x, R, budget, cost, t>>,
                   result |-> get_ad_bids_my(x, R, budget, cost, t[1], t[2], t[3])]
    /\ UNCHANGED agent_vars

\* the most campaigns active at once in a call of agent10's get_ad_bids
MaxFocus == 6

\* the orders list(get_active_campaigns()) is met in: ascending, descending,
\* and ascending from the third uid on
FocusOrders(n) ==
    {[i \in 1..n |-> i], [i \in 1..n |-> n + 1 - i], [i \in 1..n |-> ((i + 1) % n) + 1]}

\* agent10 get_ad_bids on day 1 of a new agent, with n active campaigns of
\* which nothing is won yet and cc is spent; every choice is greedy
Call_get_ad_bids10 ==
    /\ call = NoCall
    /\ \E n \in 4..MaxFocus :
       \E ord \in FocusOrders(n), cc \in [1..n -> {RInt(0), RInt(1), RInt(3)}] :
          LET focus == focus_campaigns(ord, cc)
              res == bid_loop10([bundles |-> {}, la |-> <<>>, born |-> <<>>,
                                 err |-> "none"],
                                focus, [u \in 1..n |-> <<Rat(99, 100), 0>>], 1,
                                ZeroQ(num_buckets), eps10, [u \in 1..n |-> 0], cc)
          IN  call' = [fn |-> "agent10.get_ad_bids", args |-> <<ord, cc>>,
                       result |-> [focus |-> focus, bundles |-> res.bundles,
                                   raised |-> res.err]]
    /\ UNCHANGED agent_vars

NextPure ==
    \/ Call_urgency_bucket
    \/ Call_get_state_index
    \/ Call_select_beta_idx
    \/ Call_calculate_effective_reach
    \/ Call_calculate_marginal_utility
    \/ Call_generate_ad_bid
    \/ Call_get_ad_bids2
    \/ Call_get_ad_bids4
    \/ Call_get_ad_bids_shaded
    \/ Call_avg_value_per_impression
    \/ Call_update_Q_first
    \/ Call_update_Q_again
    \/ Call_get_campaign_bids10
    \/ Call_get_campaign_bids4
    \/ Call_get_campaign_bids_my
    \/ Call_get_ad_bids_my
    \/ Call_get_ad_bids10

SpecPure == Init /\ [][NextPure]_vars

(***************************************************************************)
(* Claims                                                                  *)
(***************************************************************************)
Learner == agent \in {"agent10", "agent11"}

\* get_ad_bids has returned (or raised) and the day is not simulated yet
AfterCall == phase = "sim"

\* the pending actions of la whose campaign is active today
ActiveOnly(la) == SelectSeq(la, LAMBDA e : e[1] \in active)

StaleOnly(la) == SelectSeq(la, LAMBDA e : e[1] \notin active)

\* the pending actions of la that reference cell (s, a)
Hits(la, s, a) == Cardinality({k \in DOMAIN la : la[k][2][1] = s /\ la[k][2][2] = a})

RECURSIVE RPow(_, _)
RPow(p, k) == IF k = 0 THEN RInt(1) ELSE RMul(p, RPow(p, k - 1))

\* a cell after k plain updates with reward r: r + (1 - alpha)^k (old - r)
PlainAfter(old, r, k) ==
    RAdd(r, RMul(RPow(RSub(RInt(1), alpha10), k), RSub(old, r)))

\* la in every processing order
Reorderings(la) ==
    {[i \in DOMAIN la |-> la[f[i]]] : f \in OrdersOf(DOMAIN la)}

DistinctCells(la) ==
    \A i, j \in DOMAIN la :
        i # j => <<la[i][2][1], la[i][2][2]>> # <<la[j][2][1], la[j][2][2]>>

\* the daily update of the learner at hand, applied to Qt with the pending
\* actions la and today's observations
DailyUpdate(Qt, la) ==
    IF agent = "agent10" THEN update_Q_from_last_actions(Qt, la, reward)
    ELSE batch_update_q_table(Qt, la, active, day, cum_reach, cum_cost)

C2_OneDayOneUse ==
    /\ DictKeys(la_born) = DictKeys(last_actions)
    /\ Len(la_born) = Len(last_actions)
    /\ phase = "idle" => last_actions = <<>>
    /\ AfterCall => \A i \in DOMAIN la_born : la_born[i][2] = <<game, day>>
    /\ phase = "bid" => \A i \in DOMAIN la_born : la_born[i][2] = <<game, day - 1>>
    /\ AfterCall =>
          /\ \A i \in DOMAIN applied : applied[i][2] = <<game, day - 1>>
          /\ \A i, j \in DOMAIN applied : applied[i][1] = applied[j][1] => i = j

\* C2 witness: a call on the second day of the second game has used the
\* entries of the day before and recorded new ones.
C2_Witness ==
    /\ AfterCall
    /\ Learner
    /\ game = 2
    /\ day = 2
    /\ applied # <<>>
    /\ last_actions # <<>>

\* C3: after get_ad_bids of agent10 a cell referenced by k pending actions has
\* received k times Q <- Q + alpha (reward - Q), every other cell is as
\* before, and with no pending action the table is as before.
C3_PlainUpdate ==
    (AfterCall /\ agent = "agent10") =>
        /\ \A s \in 0..(num_buckets - 1), a \in 0..(NumActions - 1) :
              Q[s][a] = PlainAfter(Q_before[s][a], reward, Hits(la_before, s, a))
        /\ \A s \in 0..(num_buckets - 1), a \in 0..(NumActions - 1) :
              Hits(la_before, s, a) = 0 => Q[s][a] = Q_before[s][a]
        /\ \A k \in DOMAIN la_before :
              Hits(la_before, la_before[k][2][1], la_before[k][2][2]) = 1 =>
                  LET old == Q_before[la_before[k][2][1]][la_before[k][2][2]]
                  IN  Q[la_before[k][2][1]][la_before[k][2][2]]
                          = RAdd(old, RMul(Rat(1, 5), RSub(reward, old)))
        /\ la_before = <<>> => Q = Q_before

\* C3 witness: two pending actions share one cell, whose non-zero value has
\* changed, and another non-zero cell is referenced by none and left alone.
C3_Witness ==
    /\ AfterCall
    /\ agent = "agent10"
    /\ \E k \in DOMAIN la_before :
          LET s == la_before[k][2][1]
              a == la_before[k][2][2]
          IN  /\ Hits(la_before, s, a) = 2
              /\ Q_before[s][a] # RInt(0)
              /\ Q[s][a] # Q_before[s][a]
    /\ \E s \in 0..(num_buckets - 1), a \in 0..(NumActions - 1) :
          /\ Hits(la_before, s, a) = 0
          /\ Q[s][a] # RInt(0)
          /\ Q[s][a] = Q_before[s][a]

\* the maximum of a row, as the value no entry of the row exceeds
C4_Max(row) ==
    CHOOSE v \in {row[a] : a \in 0..(NumActions - 1)} :
        \A a \in 0..(NumActions - 1) : RLe(row[a], v)

\* the campaign of a pending action has ended: no day of it is left today
C4_Ended(uid) == campaign(uid).end_day - day + 1 <= 0

\* the campaign of a pending action has ended or has no reach left today
C4_Terminal(uid) ==
    \/ C4_Ended(uid)
    \/ campaign(uid).reach - cum_reach[uid] <= 0

\* maxNext of the pending action of uid on table Qt
C4_MaxNext(Qt, uid) ==
    IF C4_Terminal(uid) THEN RInt(0)
    ELSE LET dl == campaign(uid).end_day - day + 1
             left == campaign(uid).reach - cum_reach[uid]
         IN  C4_Max(Qt[get_state_index(dl, Rat(left, dl), campaign(uid).reach)])

\* Q_old + alpha (reward + gamma maxNext - Q_old), with alpha = 1/10 and
\* gamma = 9/10, for the pending action e
C4_Step(Qt, e) ==
    LET old == Qt[e[2][1]][e[2][2]]
        r == reward11(campaign(e[1]), e[2][3], e[2][4], cum_reach[e[1]], cum_cost[e[1]])
        target == RAdd(r, RMul(Rat(9, 10), C4_MaxNext(Qt, e[1])))
    IN  [Qt EXCEPT ![e[2][1]][e[2][2]] =
            RMul(Rat(1, 10), RAdd(RMul(RInt(9), old), target))]

RECURSIVE C4_Fold(_, _)
C4_Fold(Qt, la) == IF la = <<>> THEN Qt ELSE C4_Fold(C4_Step(Qt, Head(la)), Tail(la))

\* C4: after get_ad_bids of agent11 the Q-table is the one obtained by
\* setting, for each pending action of an active campaign in turn, Q[s,a] to
\* Q_old + alpha (reward + gamma maxNext - Q_old), maxNext being the maximum
\* of the row of the campaign's state today, and 0 when the campaign has
\* ended or has no reach left.
C4_BootstrappedUpdate ==
    (AfterCall /\ agent = "agent11") =>
        Q = C4_Fold(Q_before, ActiveOnly(la_before))

\* C4 witness: among the updates of one call, one of a campaign that has
\* ended and one whose maxNext, read from the table as the updates before it
\* left it, is not 0.
C4_Witness ==
    /\ AfterCall
    /\ agent = "agent11"
    /\ Q # Q_before
    /\ LET upd == ActiveOnly(la_before)
       IN  /\ \E k \in DOMAIN upd : C4_Ended(upd[k][1])
           /\ \E k \in DOMAIN upd :
                 /\ ~C4_Terminal(upd[k][1])
                 /\ C4_MaxNext(C4_Fold(Q_before, SubSeq(upd, 1, k - 1)), upd[k][1])
                       # RInt(0)

\* C5 (as claimed): when the pending actions reference distinct cells, every
\* processing order of them gives the Q-table the call produced, in agent10
\* and in agent11.
C5_OrderIndependent ==
    (AfterCall /\ Learner /\ DistinctCells(la_before)) =>
        \A la \in Reorderings(la_before) : DailyUpdate(Q_before, la) = Q

\* the row max_future_q reads for the pending action e: -1 when it reads none
C5_NextRow(e) ==
    IF e[1] \notin active \/ C4_Terminal(e[1]) THEN -1
    ELSE LET dl == campaign(e[1]).end_day - day + 1
         IN  get_state_index(dl, Rat(campaign(e[1]).reach - cum_reach[e[1]], dl),
                             campaign(e[1]).reach)

\* no pending action reads the row of a cell another active one writes
C5_NoCrossRead(la) ==
    \A i, j \in DOMAIN la :
        (i # j /\ la[j][1] \in active) => C5_NextRow(la[i]) # la[j][2][1]

\* C5 (amended): with distinct cells the result is independent of the
\* processing order in agent10, and in agent11 when moreover no pending
\* action's next-day state is the state of another pending action.
C5_OrderIndependentIfNoCrossRead ==
    (AfterCall /\ Learner /\ DistinctCells(la_before)
     /\ (agent = "agent11" => C5_NoCrossRead(la_before))) =>
        \A la \in Reorderings(la_before) : DailyUpdate(Q_before, la) = Q

\* C5 witness: agent11 has updated two distinct cells for two active
\* campaigns, neither reading the other's row.
C5_Witness ==
    /\ AfterCall
    /\ agent = "agent11"
    /\ Len(ActiveOnly(la_before)) = 2
    /\ DistinctCells(la_before)
    /\ C5_NoCrossRead(la_before)
    /\ \A k \in DOMAIN la_before :
          Q[la_before[k][2][1]][la_before[k][2][2]]
              # Q_before[la_before[k][2][1]][la_before[k][2][2]]

\* C7: every price a learner passes to a Bid is at least min_price, at most
\* the remaining budget (which is the bid_limit) and at most 5.0.
C7_PriceWithinBudget ==
    (AfterCall /\ Learner) =>
        \A b \in bundles :
            /\ RLe(min_price, b.bid_per_item)
            /\ RLe(b.bid_per_item, max_price)
            /\ b.bid_limit = remaining_budget(b.campaign_id, cum_cost)
            /\ RLe(b.bid_per_item, b.bid_limit)

\* the days left of campaign u as the agent at hand computes them
C8_DaysLeft(u) ==
    IF agent = "agent10" THEN days_left10(campaign(u).end_day, day)
    ELSE IMax(0, campaign(u).end_day - day + 1)

C6_GreedyIsFirstArgmax ==
    (call.fn = "select_beta_idx" /\ call.args[2] = RInt(0)) =>
        /\ \A a \in 0..(NumActions - 1) :
              RLe(call.args[1][a], call.args[1][call.result])
        /\ \A a \in 0..(NumActions - 1) :
              a < call.result => RLt(call.args[1][a], call.args[1][call.result])

\* C6 witness: a row with a tied maximum, epsilon 0, the random draw 0, and
\* the second of the tied indices not chosen.
C6_Witness ==
    /\ call.fn = "select_beta_idx"
    /\ call.args[2] = RInt(0)
    /\ call.args[3] = RInt(0)
    /\ call.args[1][3] = RInt(2)
    /\ call.args[1][7] = RInt(2)
    /\ call.args[1][0] = RInt(-2)
    /\ call.result = 3

\* C9: _urgency_bucket sends days_left 0, 1 to 0, days_left 2, 3 to 1 and
\* every days_left >= 4 to 2: the result is in 0..2 and never decreases when
\* days_left grows.
C9_UrgencyBucket ==
    call.fn = "_urgency_bucket" =>
        LET d == call.args[1]
        IN  /\ (d \in {0, 1} => call.result = 0)
            /\ (d \in {2, 3} => call.result = 1)
            /\ (d >= 4 => call.result = 2)
            /\ call.result \in 0..2
            /\ \A e \in 0..d : urgency_bucket(e) <= call.result

\* C9 witness: the bucket of days_left 4 is 2.
C9_Witness ==
    call.fn = "_urgency_bucket" /\ call.args[1] = 4 /\ call.result = 2

\* C10: _get_state_index returns urgency * 3 + pacing, in 0..8, with pacing 0
\* when needed_per_day / total_reach < 0.1, 1 when < 0.3, 2 otherwise (for a
\* total reach >= 1), so that the index determines the pair.
C10_StateIndex ==
    call.fn = "_get_state_index" =>
        LET d == call.args[1]
            nn == call.args[2][1]
            nd == call.args[2][2]
            R == call.args[3]
            urgency == IF d <= 1 THEN 0 ELSE IF d <= 3 THEN 1 ELSE 2
            pacing == IF 10 * nn < nd * R THEN 0
                      ELSE IF 10 * nn < 3 * nd * R THEN 1
                      ELSE 2
        IN  /\ call.result \in 0..8
            /\ call.result \div 3 = urgency
            /\ R >= 1 => (call.result % 3 = pacing
                          /\ call.result = urgency * 3 + pacing)

\* C10 witness: 3 days left and a ratio of exactly 0.1 give state 1 * 3 + 1.
C10_Witness ==
    /\ call.fn = "_get_state_index"
    /\ call.args = <<3, RInt(1), 10>>
    /\ call.result = 4

(***************************************************************************)
(* Claims C11 to C20                                                       *)
(***************************************************************************)
\* the plain update with reward r, for each pending action of la in turn
RECURSIVE C11_ApplyAll(_, _, _)
C11_ApplyAll(Qt, la, r) ==
    IF la = <<>> THEN Qt
    ELSE LET s == Head(la)[2][1]
             a == Head(la)[2][2]
             new == RAdd(RMul(Rat(4, 5), Qt[s][a]), RMul(Rat(1, 5), r))
         IN  C11_ApplyAll([Qt EXCEPT ![s][a] = new], Tail(la), r)

\* C11: in agent10 the reward of a get_ad_bids call is the cumulative profit
\* at this call minus the cumulative profit at the call of the day before in
\* the same game (0 on the first day), and the Q-table after the call is the
\* one obtained by applying that one reward to every pair recorded yesterday,
\* once per campaign, in insertion order.
C11_OneRewardForAll ==
    (AfterCall /\ agent = "agent10") =>
        /\ reward = RSub(profit, profit_seen)
        /\ prev_profit = profit
        /\ Q = C11_ApplyAll(Q_before, la_before, RSub(profit, profit_seen))

\* C11 witness: on a later day of a game, with a non-zero profit the day
\* before and a different profit today, two campaigns' pairs have been
\* updated.
C11_Witness ==
    /\ AfterCall
    /\ agent = "agent10"
    /\ day > 1
    /\ profit_seen # RInt(0)
    /\ reward # RInt(0)
    /\ reward # profit
    /\ Len(la_before) = 2
    /\ Q # Q_before

\* (rho(curr_x, R) - rho(prev_x, R)) * budget - (curr_cost - prev_cost) for the
\* pending action e = <<uid, <<state, action, prev_x, prev_cost>>>>, with the
\* campaign's own values of today
C12_Reward(e) ==
    LET c == campaign(e[1])
        gain == RSub(calculate_effective_reach(cum_reach[e[1]], c.reach),
                     calculate_effective_reach(e[2][3], c.reach))
    IN  RSub(RMul(gain, c.budget), RSub(cum_cost[e[1]], e[2][4]))

RECURSIVE C12_ApplyAll(_, _)
C12_ApplyAll(Qt, la) ==
    IF la = <<>> THEN Qt
    ELSE LET e == Head(la)
             old == Qt[e[2][1]][e[2][2]]
             future == max_future_q(Qt, campaign(e[1]), cum_reach[e[1]], day)
             target == RAdd(C12_Reward(e), RMul(gamma11, future))
             new == RAdd(old, RMul(alpha11, RSub(target, old)))
         IN  C12_ApplyAll([Qt EXCEPT ![e[2][1]][e[2][2]] = new], Tail(la))

\* C12: in agent11 the snapshot stored with a pending action is the
\* campaign's cumulative reach and cost of the day the action was chosen, and
\* the reward that enters the update of the following day is
\* (rho(curr_x, R) - rho(prev_x, R)) * budget - (curr_cost - prev_cost), from
\* that snapshot and the same campaign's values of the following day alone.
C12_PerCampaignReward ==
    /\ (AfterCall /\ agent = "agent11") =>
          \A k \in DOMAIN last_actions :
              /\ last_actions[k][2][3] = cum_reach[last_actions[k][1]]
              /\ last_actions[k][2][4] = cum_cost[last_actions[k][1]]
    /\ (AfterCall /\ agent = "agent11") =>
          Q = C12_ApplyAll(Q_before, ActiveOnly(la_before))

\* C12 witness: two campaigns updated in one call with different rewards, one
\* of them from a snapshot with impressions and cost already on it.
C12_Witness ==
    /\ AfterCall
    /\ agent = "agent11"
    /\ LET upd == ActiveOnly(la_before)
       IN  /\ Len(upd) = 2
           /\ C12_Reward(upd[1]) # C12_Reward(upd[2])
           /\ \E k \in DOMAIN upd :
                 /\ upd[k][2][3] > 0
                 /\ upd[k][2][4] # RInt(0)
                 /\ cum_reach[upd[k][1]] > upd[k][2][3]
                 /\ C12_Reward(upd[k]) # RInt(0)

\* the action indices an epsilon-greedy selection on row can return: the
\* first maximum of the row, or an explored index
C13_Selectable(row) == {argmax(row)} \cup RandIntDraws

\* the table before the call with yesterday's pending actions applied
C13_Updated ==
    IF agent = "agent10" THEN C11_ApplyAll(Q_before, la_before, reward)
    ELSE C12_ApplyAll(Q_before, ActiveOnly(la_before))

\* C13: in a get_ad_bids call of a learner the Q-table after the call is the
\* table before it with yesterday's pending actions applied and nothing
\* else; every action recorded today was selected on that updated table and
\* recorded today; and no entry recorded today is among the updates applied.
C13_UpdateThenSelect ==
    (AfterCall /\ Learner) =>
        /\ Q = C13_Updated
        /\ \A k \in DOMAIN last_actions :
              last_actions[k][2][2]
                  \in C13_Selectable(C13_Updated[last_actions[k][2][1]])
        /\ \A k \in DOMAIN la_born : la_born[k][2] = <<game, day>>
        /\ \A k \in DOMAIN applied : applied[k][2] # <<game, day>>

\* C13 witness: the update of this call has moved the first maximum of a row,
\* and an action recorded today for that row is the new first maximum, not
\* the old one and not an explored index.
C13_Witness ==
    /\ AfterCall
    /\ Learner
    /\ \E k \in DOMAIN last_actions :
          LET s == last_actions[k][2][1]
          IN  /\ argmax(Q[s]) # argmax(Q_before[s])
              /\ last_actions[k][2][2] = argmax(Q[s])
              /\ last_actions[k][2][2] \notin RandIntDraws
              /\ last_actions[k][1] \in DictKeys(la_before)

\* every cell of the table is 0, in a table of the learner's shape
C14_AllZero ==
    /\ DOMAIN Q = (IF agent = "agent10" THEN 0..2 ELSE 0..8)
    /\ \A s \in DOMAIN Q :
          /\ DOMAIN Q[s] = 0..10
          /\ \A a \in DOMAIN Q[s] : Q[s][a] = <<0, 1>>

\* a step that starts a game
C14_NewGameStep == game' = game + 1

\* C14: the Q-table of a learner is all zeros at construction, and
\* on_new_game leaves every cell of it as it was, empties last_actions and,
\* in agent10, sets prev_profit to 0.
C14_QKeptAcrossGames ==
    /\ (Learner => C14_AllZero)
    /\ [][(Learner /\ C14_NewGameStep) =>
             /\ Q' = Q
             /\ last_actions' = <<>>
             /\ (agent = "agent10" => prev_profit' = RInt(0))]_vars

\* C14 witness: a second game has just been started by a learner that holds
\* learned values, and its pending actions are gone.
C14_Witness ==
    /\ Learner
    /\ game = 2
    /\ phase = "bid"
    /\ day = 1
    /\ \E s \in DOMAIN Q, a \in 0..(NumActions - 1) : Q[s][a] # RInt(0)
    /\ last_actions = <<>>
    /\ la_born = <<>>

(***************************************************************************)
(* C15: the fallback of the value model for R <= 0                         *)
(***************************************************************************)
C15_ValueCall ==
    call.fn \in {"_calculate_effective_reach", "_calculate_marginal_utility",
                 "generate_ad_bid"}

\* the reach argument R of a call of the value model
C15_R == IF call.fn = "generate_ad_bid" THEN call.args[3] ELSE call.args[2]

\* C15: for every R <= 0 and every x >= 0 the effective reach, the marginal
\* effective reach and the average value per impression are 0 and nothing
\* is raised
C15_FallbackIsZero ==
    (C15_ValueCall /\ C15_R <= 0) =>
        IF call.fn = "generate_ad_bid"
        THEN call.result.raised = "none" /\ call.result.avg_vpi = RInt(0)
        ELSE call.result = RInt(0)

\* C15, the part that holds: the marginal effective reach is 0 for every
\* R <= 0 and the effective reach is 0 for R = 0
C15_GuardedPart ==
    /\ (call.fn = "_calculate_marginal_utility" /\ C15_R <= 0) => call.result = RInt(0)
    /\ (call.fn = "_calculate_effective_reach" /\ C15_R = 0) => call.result = RInt(0)
    /\ (call.fn = "generate_ad_bid" /\ C15_R < 0) =>
           call.result.raised = "none" /\ call.result.avg_vpi = RInt(0)

(***************************************************************************)
(* C16: no bid at a price that is not positive                             *)
(***************************************************************************)
C16_BidCall ==
    call.fn \in {"agent2.get_ad_bids", "agent4.get_ad_bids", "ShadedAgent.get_ad_bids"}

C16_GuardedAgents ==
    (call.fn \in {"agent4.get_ad_bids", "ShadedAgent.get_ad_bids"}) =>
        \A b \in call.result.bundles : RLt(RInt(0), b.bid_per_item)

(***************************************************************************)
(* C17: the plain update repeated with reward 1                            *)
(***************************************************************************)
C17_Repeated == call.fn = "_update_Q_from_last_actions"

\* the distance |Q[s, a] - 1| of the updated cell
C17_Distance(Qt) ==
    LET d == RSub(Qt[call.args[2]][call.args[3]], RInt(1))
    IN  IF RLt(d, RInt(0)) THEN RNeg(d) ELSE d

\* C17: from the all-zero table, a cell that gets the plain update with
\* reward 1 again and again, alpha in (0, 1], has |Q[s, a] - 1| multiplied
\* by (1 - alpha) at every update and never exceeds 1, and every other cell
\* stays 0
C17_ConvergesToReward ==
    /\ C17_Repeated =>
          /\ C17_Distance(call.result) =
                 RPow(RSub(RInt(1), call.args[1]), call.args[4])
          /\ RLe(call.result[call.args[2]][call.args[3]], RInt(1))
          /\ \A s \in 0..(num_buckets - 1), a \in 0..(NumActions - 1) :
                (s # call.args[2] \/ a # call.args[3]) => call.result[s][a] = RInt(0)
    /\ [][(C17_Repeated /\ C17_Repeated') =>
             C17_Distance(call.result)' =
                 RMul(RSub(RInt(1), call.args[1]), C17_Distance(call.result))]_vars

C17_Witness ==
    /\ C17_Repeated
    /\ call.args[1] = alpha10
    /\ call.args[4] >= 4
    /\ RLt(C17_Distance(call.result), Rat(1, 2))
    /\ RLt(RInt(0), C17_Distance(call.result))

(***************************************************************************)
(* C18: the average value per impression                                   *)
(***************************************************************************)
\* (rho(R, R) - rho(x, R)) * budget / remaining for remaining = R - x > 0,
\* and 0 otherwise
C18_Value(x, R, budget) ==
    IF R - x > 0
    THEN RDiv(RMul(RSub(effective_reach(R, R), effective_reach(x, R)), budget),
              RInt(R - x))
    ELSE RInt(0)

\* C18: the average value per impression that agent4, ShadedAgent and agent2
\* take as base price is (rho(R, R) - rho(x, R)) * budget / remaining when
\* remaining = R - x > 0, and 0 when remaining <= 0
C18_AverageValue ==
    /\ call.fn = "avg_value_per_impression" =>
           call.result = C18_Value(call.args[1], call.args[2], call.args[3])
    /\ call.fn = "generate_ad_bid" =>
           call.result.avg_vpi = C18_Value(call.args[2], call.args[3], call.args[4])

C18_Witness ==
    /\ call.fn = "avg_value_per_impression"
    /\ 0 < call.args[1]
    /\ call.args[1] < call.args[2]
    /\ RLt(RInt(0), call.result)
    /\ call.result # RDiv(call.args[3], RInt(call.args[2]))

(***************************************************************************)
(* C19: days left and duration count both end points                       *)
(***************************************************************************)
\* the days left of a campaign today, both end points counted
C19_DaysLeft(uid) == campaign(uid).end_day - day + 1

\* the urgency class of a number of days left
C19_Urgency(d) == IF d <= 1 THEN 0 ELSE IF d <= 3 THEN 1 ELSE 2

\* the urgency a learner recorded with a pending action: agent10's bucket,
\* agent11's state index div 3
C19_Recorded(e) == IF agent = "agent10" THEN e[2][1] ELSE e[2][1] \div 3

\* C19: days left count both end points in every agent, so that for the
\* same campaign on the same day agent10's urgency bucket and the urgency
\* component of agent11's state index are the same number, the urgency of
\* end_day - current_day + 1
C19_SameUrgency ==
    (AfterCall /\ Learner) =>
        \A k \in DOMAIN last_actions :
            C19_Recorded(last_actions[k]) = C19_Urgency(C19_DaysLeft(last_actions[k][1]))

\* C19, the part that holds: agent11 counts both end points
C19_Agent11Inclusive == (agent = "agent11") => C19_SameUrgency

(***************************************************************************)
(* C20: the effective reach is 0 at 0 and strictly increasing              *)
(***************************************************************************)
\* the arguments on which the tabulated arctangent has not reached its last
\* knot: a * (x / R) - b < 12 for every x <= 3 R
C20_Resolved(x, R) == x <= 3 * R

C21_CampaignCall ==
    call.fn \in {"agent10.get_campaign_bids", "agent4.get_campaign_bids",
                 "my_agent.get_campaign_bids"}

\* self.max_active_campaigns of the agent called
C21_Capacity ==
    IF call.fn = "my_agent.get_campaign_bids" THEN 4 ELSE 5

\* C21: get_campaign_bids returns no bids when the number of active
\* campaigns is >= max_active_campaigns, and agent4 and my_agent return at
\* most max_active_campaigns minus the number of active campaigns bids
C21_NoBidsAtCapacity ==
    C21_CampaignCall =>
        /\ call.args[2] >= C21_Capacity => call.result = <<>>
        /\ (call.fn # "agent10.get_campaign_bids" /\ call.args[2] < C21_Capacity) =>
               Len(call.result) <= C21_Capacity - call.args[2]

\* the candidates of agent4 outnumber the free slots, and the bids fill them
C21_Witness ==
    /\ call.fn = "agent4.get_campaign_bids"
    /\ call.args[2] = 4
    /\ Len(SelectSeq(call.args[1], LAMBDA c : c # None /\ c.uid \in {12, 13})) = 2
    /\ call.args[4]["Male_Old_LowIncome"] = 4
    /\ call.args[3] = {}
    /\ Len(call.result) = 1

(***************************************************************************)
(* C22: the price of a Bid is at most its limit                            *)
(***************************************************************************)
C22_AdCall ==
    call.fn \in {"agent2.get_ad_bids", "agent4.get_ad_bids",
                 "ShadedAgent.get_ad_bids", "my_agent.get_ad_bids"}

\* C22: every Bid built by get_ad_bids of agent4, ShadedAgent, my_agent and
\* agent2 has bid_per_item <= bid_limit, whatever budget and reach remain
C22_PriceWithinLimit ==
    C22_AdCall => \A b \in call.result.bundles : RLe(b.bid_per_item, b.bid_limit)

\* C22, the part that holds: agent4 and ShadedAgent, which cap the price at
\* the limit
C22_CappedAgents ==
    (call.fn \in {"agent4.get_ad_bids", "ShadedAgent.get_ad_bids"}) =>
        C22_PriceWithinLimit

(***************************************************************************)
(* C23: the duration filter of the campaign auctions                       *)
(***************************************************************************)
\* the days a campaign lasts, both end points counted
C23_Duration(c) == c.end_day - c.start_day + 1

\* the campaigns of the call that only the duration filter can reject: not
\* None, accepted by is_valid_campaign_bid, and, for agent4, neither too
\* difficult nor on a segment of an active campaign, in a call with a free
\* slot for every campaign offered; agent10 is called below capacity - 1,
\* where its reach filter is off
C23_OnlyDuration(c) ==
    /\ c # None
    /\ c.uid \notin call.args[3]
    /\ call.fn = "agent10.get_campaign_bids" => call.args[2] < 4
    /\ call.fn = "agent4.get_campaign_bids" =>
           /\ Len(call.args[1]) <= 5 - call.args[2]
           /\ RLe(fraction_needed(c), Rat(1, 2))
           /\ call.args[4][c.seg] = 0

C23_BidOn == {call.result[i][1] : i \in DOMAIN call.result}

\* C23: the duration filter of get_campaign_bids rejects a campaign exactly
\* when it lasts one day: agent10 and agent4 never bid on a 1-day campaign,
\* and a campaign of two or more days is not rejected by this filter
C23_OnlyOneDaySkipped ==
    (call.fn \in {"agent10.get_campaign_bids", "agent4.get_campaign_bids"}) =>
        \A i \in DOMAIN call.args[1] :
            LET c == call.args[1][i]
            IN  /\ (c # None /\ C23_Duration(c) = 1) => c.uid \notin C23_BidOn
                /\ (C23_OnlyDuration(c) /\ C23_Duration(c) >= 2) => c.uid \in C23_BidOn

\* C23, the part that holds: neither agent bids on a 1-day campaign, and
\* agent4 rejects no longer campaign for its duration
C23_OneDaySkipped ==
    (call.fn \in {"agent10.get_campaign_bids", "agent4.get_campaign_bids"}) =>
        \A i \in DOMAIN call.args[1] :
            LET c == call.args[1][i]
            IN  /\ (c # None /\ C23_Duration(c) = 1) => c.uid \notin C23_BidOn
                /\ (call.fn = "agent4.get_campaign_bids" /\ C23_OnlyDuration(c)
                        /\ C23_Duration(c) >= 2) => c.uid \in C23_BidOn

(***************************************************************************)
(* C24: at most max_active_campaigns bundles, the largest budgets first    *)
(***************************************************************************)
\* budget - cumulative cost of campaign u in the call
C24_Remaining(u) == RSub(campaign(u).budget, call.args[2][u])

C24_Considered == {call.result.focus[i] : i \in DOMAIN call.result.focus}

C24_LeftOut == {call.args[1][i] : i \in DOMAIN call.args[1]} \ C24_Considered

\* C24: agent10's get_ad_bids emits at most max_active_campaigns (5) bundles
\* a day; when more campaigns are active, every campaign considered has a
\* remaining budget >= that of every campaign left out
C24_LargestBudgetsFirst ==
    (call.fn = "agent10.get_ad_bids") =>
        /\ Cardinality(call.result.bundles) <= 5
        /\ \A b \in call.result.bundles : b.campaign_id \in C24_Considered
        /\ \A u \in C24_Considered, v \in C24_LeftOut :
              RLe(C24_Remaining(v), C24_Remaining(u))

\* six campaigns are active, the one left out is not the last of the list,
\* and five bundles are emitted
C24_Witness ==
    /\ call.fn = "agent10.get_ad_bids"
    /\ Len(call.args[1]) = 6
    /\ call.args[1][6] \in C24_Considered
    /\ C24_LeftOut # {}
    /\ Cardinality(call.result.bundles) = 5

(***************************************************************************)
(* C25: a pending action for exactly the campaigns bid on                  *)
(***************************************************************************)
C25_BundleIds == {b.campaign_id : b \in bundles}

\* C25: after every get_ad_bids call of a learner the uids of last_actions
\* are the campaign_ids of the bundles returned: a pending action is
\* recorded if and only if a bid was emitted for the campaign that day, and
\* a campaign skipped for no reach or no budget left records nothing
C25_ActionsMatchBundles ==
    (AfterCall /\ Learner /\ raised = "none") =>
        /\ DictKeys(last_actions) = C25_BundleIds
        /\ Len(last_actions) = Cardinality(C25_BundleIds)
        /\ \A u \in active :
              (campaign(u).reach - cum_reach[u] <= 0
                  \/ RLe(RSub(campaign(u).budget, cum_cost[u]), RInt(0))) =>
                  u \notin DictKeys(last_actions)

\* one active campaign was skipped and another one was bid on
C25_Witness ==
    /\ AfterCall
    /\ Learner
    /\ raised = "none"
    /\ C25_BundleIds # {}
    /\ \E u \in active : campaign(u).reach - cum_reach[u] <= 0 /\ u \notin C25_BundleIds

(***************************************************************************)
(* C26: the first call of a game                                           *)
(***************************************************************************)
\* a get_ad_bids step on the first day of a game: the first call after
\* on_new_game
C26_FirstCallStep == phase = "bid" /\ day = 1 /\ phase' = "sim"

\* C26: the first get_ad_bids call after on_new_game finds no pending action
\* and changes no cell of the Q-table: the actions pending from the last day
\* of the game before are dropped without an update
C26_FirstCallLearnsNothing ==
    /\ []((Learner /\ phase = "bid" /\ day = 1) => last_actions = <<>>)
    /\ [][(Learner /\ C26_FirstCallStep) => (Q' = Q /\ applied' = <<>>)]_vars

\* the first call of a second game has returned with new pending actions,
\* and the table holds values learned in the first game
C26_Witness ==
    /\ AfterCall
    /\ Learner
    /\ game = 2
    /\ day = 1
    /\ last_actions # <<>>
    /\ Q = Q_before
    /\ \E s \in DOMAIN Q, a \in 0..(NumActions - 1) : Q[s][a] # RInt(0)

(***************************************************************************)
(* C27: pending actions index the Q-table                                  *)
(***************************************************************************)
\* the rows of the learner's table: 3 urgency buckets in agent10, 9 states
\* in agent11
C27_Rows == IF agent = "agent10" THEN 0..2 ELSE 0..8

\* C27: every pending action of a learner holds a state index that is a row
\* of its Q-table (3 rows in agent10, 9 in agent11) and an action index in
\* 0..10, a column of the table and a position of beta_grid
C27_PendingIndexInTable ==
    Learner =>
        /\ DOMAIN Q = C27_Rows
        /\ \A s \in DOMAIN Q : DOMAIN Q[s] = 0..10
        /\ \A k \in DOMAIN last_actions :
              /\ last_actions[k][2][1] \in C27_Rows
              /\ last_actions[k][2][2] \in 0..10

\* two pending actions of one call, one explored at the last column and one
\* greedy at the first, in different rows
C27_Witness ==
    /\ AfterCall
    /\ Learner
    /\ \E j, k \in DOMAIN last_actions :
          /\ last_actions[j][2][2] = 10
          /\ last_actions[k][2][2] = 0
          /\ last_actions[j][2][1] # last_actions[k][2][1]

(***************************************************************************)
(* C28: the Q-table of agent10 stays among the rewards seen                *)
(***************************************************************************)
\* 0, the initial value of a cell, and every reward computed so far
C28_Hull == {RInt(0)} \cup {rewards[k][2] : k \in DOMAIN rewards}

\* min(0, lo) and max(0, hi) for the tightest lo and hi that bound every
\* reward so far
C28_Low == CHOOSE x \in C28_Hull : \A y \in C28_Hull : RLe(x, y)

C28_High == CHOOSE x \in C28_Hull : \A y \in C28_Hull : RLe(y, x)

\* C28: in agent10, if every daily reward so far lies in [lo, hi] then every
\* Q cell lies in [min(0, lo), max(0, hi)]: a cell starts at 0 and every
\* update moves it to a convex combination of itself and the reward
C28_CellsWithinRewards ==
    agent = "agent10" =>
        \A s \in DOMAIN Q, a \in 0..10 :
            RLe(C28_Low, Q[s][a]) /\ RLe(Q[s][a], C28_High)

\* a loss and a gain have both been used as rewards, one cell has been
\* moved below 0 and is still there, another cell is above 0
C28_Witness ==
    /\ agent = "agent10"
    /\ AfterCall
    /\ RLt(C28_Low, RInt(0))
    /\ RLt(RInt(0), C28_High)
    /\ \E s \in DOMAIN Q, a \in 0..10 : RLt(Q[s][a], RInt(0))
    /\ \E s \in DOMAIN Q, a \in 0..10 : RLt(RInt(0), Q[s][a])

(***************************************************************************)
(* C29: the exploration rate of agent11                                    *)
(***************************************************************************)
\* 0.985 times eps, or 0.05 where that is lower
C29_Decayed(eps) ==
    LET x == RMul(eps, Rat(197, 200))
    IN  IF RLe(Rat(1, 20), x) THEN x ELSE Rat(1, 20)

\* C29: in agent11 epsilon_min <= epsilon <= 1 in every state; epsilon
\* changes in on_new_game only, to max(epsilon_min, 0.985 * epsilon), which
\* is never above the value before; and once 0.985 * epsilon is at or below
\* epsilon_min the next game sets epsilon to epsilon_min, where it stays
C29_EpsilonDecaysToFloor ==
    /\ [](RLe(Rat(1, 20), epsilon) /\ RLe(epsilon, RInt(1)))
    /\ [][/\ RLe(epsilon', epsilon)
          /\ epsilon' # epsilon => game' = game + 1
          /\ game' = game + 1 => epsilon' = C29_Decayed(epsilon)
          /\ epsilon = Rat(1, 20) => epsilon' = Rat(1, 20)]_vars

\* a call in the second game from a 198 games old object: epsilon fell to
\* epsilon_min in the first of the two games and stayed there in the second
C29_Witness ==
    /\ agent = "agent11"
    /\ AfterCall
    /\ game = 2
    /\ epsilon = Rat(1, 20)
    /\ last_actions # <<>>

(***************************************************************************)
(* C30: the rewards of a game add up to its profit                         *)
(***************************************************************************)
\* the sum of the rewards of log computed in game g
RECURSIVE C30_SumOfGame(_, _)
C30_SumOfGame(log, g) ==
    IF log = <<>> THEN RInt(0)
    ELSE IF Head(log)[1] = g
         THEN RAdd(Head(log)[2], C30_SumOfGame(Tail(log), g))
         ELSE C30_SumOfGame(Tail(log), g)

\* C30: in agent10, after every get_ad_bids call prev_profit is the
\* cumulative profit observed at that call, and the rewards computed since
\* the last on_new_game add up to that profit
C30_RewardsTelescope ==
    (AfterCall /\ agent = "agent10") =>
        /\ prev_profit = profit
        /\ C30_SumOfGame(rewards, game) = profit

\* the third call of a game: a gain and a loss among its rewards, and a
\* profit that is neither
C30_Witness ==
    /\ AfterCall
    /\ agent = "agent10"
    /\ day = 3
    /\ \E j, k \in DOMAIN rewards :
          /\ rewards[j] = <<game, RInt(2)>>
          /\ rewards[k] = <<game, RInt(-1)>>
    /\ profit = RInt(1)

=============================================================================
